---------------------------- MODULE Spec2Model ----------------------------
(***************************************************************************)
(* A model of the fates library: the Result family and its asynchronous    *)
(* composition layer (all / any, retry, pipeline, withTimeout,             *)
(* fromPromise), the accumulating Validation type and its API, the methods *)
(* of Result (with Option, for transpose) and the utilities tap, chain and *)
(* recover.                                                                *)
(*                                                                         *)
(* Every component has its own variables, its own initial condition and    *)
(* its own specification; the variables of the other components stay at    *)
(* their idle values while one component runs.                             *)
(*                                                                         *)
(* Promises are records [state |-> "pending"],                             *)
(* [state |-> "fulfilled", value |-> v] or                                 *)
(* [state |-> "rejected", reason |-> e].  A reaction registered with       *)
(* .then runs as a separate step after the promise it waits for settles.   *)
(***************************************************************************)
EXTENDS Integers, Sequences, FiniteSets, TLC

(***************************************************************************)
(* Bounds of the model.                                                    *)
(***************************************************************************)
MaxLen == 3

MaxAttempts == 3

MaxSteps == 3

MaxTimeout == 2

MaxValidations == 3

MaxErrors == 2

(***************************************************************************)
(* Payloads.  Success values are small integers; errors are Error-like     *)
(* records holding a message.                                              *)
(***************************************************************************)
Values == {1, 2}

Errors == {[message |-> "x"], [message |-> "y"]}

(***************************************************************************)
(* Result: the two variants, with the fields of the Ok and Err classes.    *)
(***************************************************************************)
Ok(v) == [tag |-> "ok", value |-> v]

Err(e) == [tag |-> "err", error |-> e]

isOk(r) == r.tag = "ok"

isErr(r) == r.tag = "err"

Results == {Ok(v) : v \in Values} \cup {Err(e) : e \in Errors}

(***************************************************************************)
(* Promises.                                                               *)
(***************************************************************************)
Pending == [state |-> "pending"]

Fulfilled(v) == [state |-> "fulfilled", value |-> v]

Rejected(e) == [state |-> "rejected", reason |-> e]

IsPromise(r) == "state" \in DOMAIN r

PromiseResolve(r) == IF IsPromise(r) THEN r ELSE Fulfilled(r)

SeqsUpTo(S, n) == UNION {[1..k -> S] : k \in 0..n}

VARIABLES
    combinator,       \* which function was called: "all", "all_v2" or "any"
    results,          \* its argument: Results and AsyncResults (promises)
    settleOrder,      \* indices of the AsyncResults in the order they settled
    allPromise,       \* the promise made by Promise.all
    output            \* the AsyncResult the combinator returned

combVars == <<combinator, results, settleOrder, allPromise, output>>

VARIABLES
    maxAttempts,      \* retry's argument
    attempt,          \* retry's loop counter
    retryPc,          \* where retry's async body stands
    awaited,          \* the promise retry awaits: Promise.resolve(fn())
    fnResults,        \* the Results the calls of fn have delivered, in order
    calls,            \* how many times fn has been invoked
    delays,           \* how many times retry has waited delayMs
    retryOutput       \* the AsyncResult retry returned

retryVars == <<maxAttempts, attempt, retryPc, awaited, fnResults, calls, delays, retryOutput>>

VARIABLES
    pipeVersion,      \* which pipeline was built: "pipeline" or "pipeline_v2"
    fns,              \* pipeline's steps
    initialValue,     \* the value the built function was applied to
    pipeIdx,          \* the position of the for loop in fns
    pipePc,           \* where the async body stands
    pipeResult,       \* the local variable result
    nextResult,       \* the Result the awaited step delivers
    invoked,          \* the steps invoked so far: index and argument, in order
    pipeOutput        \* the AsyncResult the built function returned

pipeVars == <<pipeVersion, fns, initialValue, pipeIdx, pipePc, pipeResult, nextResult,
              invoked, pipeOutput>>

VARIABLES
    viaFromPromise,   \* whether withTimeout's argument was made by fromPromise
    promise,          \* fromPromise's argument
    asyncResult,      \* withTimeout's argument (fromPromise's return value)
    timeoutMs,        \* withTimeout's argument
    now,              \* the time passed since withTimeout was called
    timer,            \* the timer timeoutId: "armed", "fired" or "cleared"
    microtasks,       \* the queue of promise reactions ready to run
    events,           \* "settled" (asyncResult) and "timer", in the order they happened
    unhandled,        \* whether a rejection was left without a handler
    wtOutput          \* the AsyncResult withTimeout returned

timeoutVars == <<viaFromPromise, promise, asyncResult, timeoutMs, now, timer, microtasks,
                 events, unhandled, wtOutput>>

VARIABLES
    validations,      \* combineValidations' argument
    combined          \* what combineValidations returned, once it has been called

validationVars == <<validations, combined>>

VARIABLES
    subject,          \* the Validation the last call of the Validation API returned
    apiOp,            \* the name of that call, "" before the first
    apiCalls,         \* how many calls have been made
    apiArg,           \* the Result given to fromResult, when subject is what it returned
    converted         \* what toResult returned, when it is the last call

apiVars == <<subject, apiOp, apiCalls, apiArg, converted>>

VARIABLES
    T,                \* the payload type of the Result a method is called on
    receiver,         \* the Result the last method was called on
    previous,         \* the call before the last: its receiver, method and argument
    method,           \* the name of that method, "" before the first call
    argument,         \* its argument: a callback, a Result, a default or a pattern
    outcome,          \* what the call did: returned a value or threw
    fnLog,            \* the callback invocations made during the call, in order
    chained           \* how many methods have been called in the chain

resultVars == <<T, receiver, previous, method, argument, outcome, fnLog, chained>>

VARIABLES
    operator,         \* which utility was called: "tap", "chain" or "recover"
    opInput,          \* the Result or AsyncResult it was given
    opArg,            \* the callback or fallback it was given
    opOutput,         \* what it returned: a Result or an AsyncResult
    opLog             \* the callback invocations made, in order

opVars == <<operator, opInput, opArg, opOutput, opLog>>

VARIABLES
    arrays,           \* the arrays allocated so far, by address
    objects,          \* the Validation and Result objects created so far
    seen,             \* what each object showed when it was created
    heapOp,           \* the last operation, "" before the first
    heapArgs,         \* the objects it was called on or given
    returned          \* the object it returned, 0 before the first

heapVars == <<arrays, objects, seen, heapOp, heapArgs, returned>>

VARIABLES
    interval,         \* RateLimiter: options.interval
    maxRequests,      \* options.maxRequests
    timestamps,       \* the limiter's timestamps
    clock,            \* the clock, Date.now()
    limiterOp,        \* the last call on the limiter, "" before the first
    limiterResult,    \* what it returned
    limiterBefore,    \* the timestamps before it and the time it was made at
    granted,          \* the times of the tryAcquire calls that returned true
    resetCalled       \* whether reset has been called

limiterVars ==
    <<interval, maxRequests, timestamps, clock, limiterOp, limiterResult, limiterBefore,
      granted, resetCalled>>

VARIABLES
    listeners,        \* TypedEventEmitter: the map from an event to its Set of callbacks
    onceListeners,    \* the map from an event to its Set of one-time callbacks
    emitterOp,        \* the last call on the emitter, "" before the first
    emitterArgs,      \* its arguments
    emitterResult,    \* what it did: returned a value or threw
    callbacksRun,     \* the callbacks it invoked, in order
    onceCalls,        \* for an event and a callback, the emits that invoked it as a one-time callback
    unsubscribers,    \* the event and callback of each unsubscribe function returned
    waited,           \* the promise waitFor returned
    emitterOps        \* how many calls have been made

emitterVars ==
    <<listeners, onceListeners, emitterOp, emitterArgs, emitterResult, callbacksRun, onceCalls,
      unsubscribers, waited, emitterOps>>

VARIABLES
    cache,            \* Cache: the Map, as its entries in insertion order
    maxSize,          \* options.maxSize
    ttl,              \* options.ttl
    cacheClock,       \* the clock, Date.now()
    cacheOp,          \* the last call on the cache, "" before the first
    cacheArgs,        \* its arguments
    cacheResult,      \* what it returned
    cacheBefore,      \* the entries before it
    live,             \* for a key, its most recent set, while it is neither evicted, deleted,
                      \* cleared nor expired: the value, the time and the rank of its insertion
    cacheOps          \* how many calls have been made

cacheVars ==
    <<cache, maxSize, ttl, cacheClock, cacheOp, cacheArgs, cacheResult, cacheBefore, live,
      cacheOps>>

VARIABLES
    computed,         \* Lazy: whether func has been called
    lazyValue,        \* Lazy: the field value
    funcReturns,      \* what each call of func does, in order
    funcCalls,        \* how many times func has been called
    gets              \* what each get() did, in order

lazyVars == <<computed, lazyValue, funcReturns, funcCalls, gets>>

\* The variables of the heap, the limiter, the emitter, the cache and the Lazy, and what
\* each of these components leaves alone.
extraVars == <<heapVars, limiterVars, emitterVars, cacheVars, lazyVars>>

baseVars ==
    <<combVars, retryVars, pipeVars, timeoutVars, validationVars, apiVars, resultVars, opVars>>

heapOthers == <<baseVars, limiterVars, emitterVars, cacheVars, lazyVars>>

limiterOthers == <<baseVars, heapVars, emitterVars, cacheVars, lazyVars>>

emitterOthers == <<baseVars, heapVars, limiterVars, cacheVars, lazyVars>>

cacheOthers == <<baseVars, heapVars, limiterVars, emitterVars, lazyVars>>

lazyOthers == <<baseVars, heapVars, limiterVars, emitterVars, cacheVars>>

laterVars == <<apiVars, resultVars, opVars, extraVars>>

vars == <<combVars, retryVars, pipeVars, timeoutVars, validationVars, laterVars>>

\* What each component leaves alone.
combOthers == <<retryVars, pipeVars, timeoutVars, validationVars, laterVars>>

retryOthers == <<combVars, pipeVars, timeoutVars, validationVars, laterVars>>

pipeOthers == <<combVars, retryVars, timeoutVars, validationVars, laterVars>>

timeoutOthers == <<combVars, retryVars, pipeVars, validationVars, laterVars>>

validationOthers == <<combVars, retryVars, pipeVars, timeoutVars, laterVars>>

earlierVars == <<combVars, retryVars, pipeVars, timeoutVars>>

apiOthers == <<earlierVars, validationVars, resultVars, opVars, extraVars>>

resultOthers == <<earlierVars, validationVars, apiVars, opVars, extraVars>>

opOthers == <<earlierVars, validationVars, apiVars, resultVars, extraVars>>

(***************************************************************************)
(* all / any.                                                              *)
(***************************************************************************)
Combinators == {"all", "all_v2", "any"}

CombInit ==
    /\ combinator \in Combinators
    /\ results \in SeqsUpTo(Results \cup {Pending}, MaxLen)
    /\ settleOrder = <<>>
    /\ allPromise = Pending
    /\ output = Pending

CombIdle ==
    /\ combinator = "all"
    /\ results = <<>>
    /\ settleOrder = <<>>
    /\ allPromise = Pending
    /\ output = Pending

RetryIdle ==
    /\ maxAttempts = 0
    /\ attempt = 1
    /\ retryPc = "loop"
    /\ awaited = Pending
    /\ fnResults = <<>>
    /\ calls = 0
    /\ delays = 0
    /\ retryOutput = Pending

PipeIdle ==
    /\ pipeVersion = "pipeline"
    /\ fns = <<>>
    /\ initialValue = 1
    /\ pipeIdx = 1
    /\ pipePc = "loop"
    /\ pipeResult = Ok(1)
    /\ nextResult = Ok(1)
    /\ invoked = <<>>
    /\ pipeOutput = Pending

TimeoutIdle ==
    /\ viaFromPromise = FALSE
    /\ promise = Pending
    /\ asyncResult = Pending
    /\ timeoutMs = 0
    /\ now = 0
    /\ timer = "cleared"
    /\ microtasks = <<>>
    /\ events = <<>>
    /\ unhandled = FALSE
    /\ wtOutput = Pending

NotCalled == [tag |-> "none"]

ValidationIdle ==
    /\ validations = <<>>
    /\ combined = NotCalled

ApiIdle ==
    /\ subject = NotCalled
    /\ apiOp = "off"
    /\ apiCalls = 0
    /\ apiArg = NotCalled
    /\ converted = NotCalled

ResultIdle ==
    /\ T = "number"
    /\ receiver = NotCalled
    /\ previous = NotCalled
    /\ method = "off"
    /\ argument = NotCalled
    /\ outcome = NotCalled
    /\ fnLog = <<>>
    /\ chained = 0

OpIdle ==
    /\ operator = "off"
    /\ opInput = NotCalled
    /\ opArg = NotCalled
    /\ opOutput = NotCalled
    /\ opLog = <<>>

HeapIdle ==
    /\ arrays = <<>>
    /\ objects = <<>>
    /\ seen = <<>>
    /\ heapOp = "off"
    /\ heapArgs = <<>>
    /\ returned = 0

LimiterIdle ==
    /\ interval = 0
    /\ maxRequests = 0
    /\ timestamps = <<>>
    /\ clock = 0
    /\ limiterOp = "off"
    /\ limiterResult = NotCalled
    /\ limiterBefore = [timestamps |-> <<>>, clock |-> 0]
    /\ granted = <<>>
    /\ resetCalled = FALSE

EmitterIdle ==
    /\ listeners = <<>>
    /\ onceListeners = <<>>
    /\ emitterOp = "off"
    /\ emitterArgs = NotCalled
    /\ emitterResult = NotCalled
    /\ callbacksRun = <<>>
    /\ onceCalls = <<>>
    /\ unsubscribers = {}
    /\ waited = NotCalled
    /\ emitterOps = 0

CacheIdle ==
    /\ cache = <<>>
    /\ maxSize = 0
    /\ ttl = 0
    /\ cacheClock = 0
    /\ cacheOp = "off"
    /\ cacheArgs = NotCalled
    /\ cacheResult = NotCalled
    /\ cacheBefore = <<>>
    /\ live = <<>>
    /\ cacheOps = 0

LazyIdle ==
    /\ computed = FALSE
    /\ lazyValue = NotCalled
    /\ funcReturns = <<>>
    /\ funcCalls = 0
    /\ gets = <<>>

ExtraIdle == HeapIdle /\ LimiterIdle /\ EmitterIdle /\ CacheIdle /\ LazyIdle

LaterIdle == ApiIdle /\ ResultIdle /\ OpIdle /\ ExtraIdle

EarlierIdle == CombIdle /\ RetryIdle /\ PipeIdle /\ TimeoutIdle

BaseIdle == EarlierIdle /\ ValidationIdle /\ ApiIdle /\ ResultIdle /\ OpIdle

\* Every component but one is idle.
HeapOthersIdle == BaseIdle /\ LimiterIdle /\ EmitterIdle /\ CacheIdle /\ LazyIdle

LimiterOthersIdle == BaseIdle /\ HeapIdle /\ EmitterIdle /\ CacheIdle /\ LazyIdle

EmitterOthersIdle == BaseIdle /\ HeapIdle /\ LimiterIdle /\ CacheIdle /\ LazyIdle

CacheOthersIdle == BaseIdle /\ HeapIdle /\ LimiterIdle /\ EmitterIdle /\ LazyIdle

LazyOthersIdle == BaseIdle /\ HeapIdle /\ LimiterIdle /\ EmitterIdle /\ CacheIdle

\* An AsyncResult entry fulfils with a Result.
Settle(i) ==
    /\ i \in DOMAIN results
    /\ IsPromise(results[i])
    /\ results[i].state = "pending"
    /\ \E r \in Results : results' = [results EXCEPT ![i] = Fulfilled(r)]
    /\ settleOrder' = Append(settleOrder, i)
    /\ UNCHANGED <<combinator, allPromise, output>>
    /\ UNCHANGED combOthers

\* A race in place of Promise.all: fulfils with the first entry that is fulfilled.
PromiseRace ==
    /\ allPromise.state = "pending"
    /\ \E i \in DOMAIN results :
          /\ PromiseResolve(results[i]).state = "fulfilled"
          /\ allPromise' = Fulfilled(<<PromiseResolve(results[i]).value>>)
    /\ UNCHANGED <<combinator, results, settleOrder, output>>
    /\ UNCHANGED combOthers

\* Promise.all over results.map(r => r instanceof Promise ? r : Promise.resolve(r)):
\* fulfils with the array of the entries' Results once every entry is fulfilled.
PromiseAll ==
    /\ allPromise.state = "pending"
    /\ \A i \in DOMAIN results : PromiseResolve(results[i]).state = "fulfilled"
    /\ allPromise' = Fulfilled([i \in DOMAIN results |-> PromiseResolve(results[i]).value])
    /\ UNCHANGED <<combinator, results, settleOrder, output>>
    /\ UNCHANGED combOthers

RECURSIVE allLoop(_, _, _)
allLoop(resolvedResults, i, values) ==
    IF i > Len(resolvedResults) THEN Ok(values)
    ELSE IF isErr(resolvedResults[i]) THEN Err(resolvedResults[i].error)
    ELSE allLoop(resolvedResults, i + 1, Append(values, resolvedResults[i].value))

RECURSIVE allLoopLastErr(_, _, _)
allLoopLastErr(resolvedResults, i, values) ==
    IF i < 1 THEN Ok(values)
    ELSE IF isErr(resolvedResults[i]) THEN Err(resolvedResults[i].error)
    ELSE allLoopLastErr(resolvedResults, i - 1, <<resolvedResults[i].value>> \o values)

\* all scanning from the end: reports the last Err instead of the first.
allThenLastErr(resolvedResults) == allLoopLastErr(resolvedResults, Len(resolvedResults), <<>>)

allThen(resolvedResults) == allLoop(resolvedResults, 1, <<>>)

RECURSIVE allLoopV2(_, _, _)
allLoopV2(resolvedResults, i, values) ==
    IF i > Len(resolvedResults) THEN Ok(values)
    ELSE IF isErr(resolvedResults[i]) THEN resolvedResults[i]
    ELSE allLoopV2(resolvedResults, i + 1, Append(values, resolvedResults[i].value))

allThenV2(resolvedResults) == allLoopV2(resolvedResults, 1, <<>>)

RECURSIVE anyLoop(_, _, _)
anyLoop(resolvedResults, i, errors) ==
    IF i > Len(resolvedResults) THEN Err(errors)
    ELSE IF isOk(resolvedResults[i]) THEN Ok(resolvedResults[i].value)
    ELSE anyLoop(resolvedResults, i + 1, Append(errors, resolvedResults[i].error))

RECURSIVE anyLoopLastOk(_, _, _)
anyLoopLastOk(resolvedResults, i, errors) ==
    IF i < 1 THEN Err(errors)
    ELSE IF isOk(resolvedResults[i]) THEN Ok(resolvedResults[i].value)
    ELSE anyLoopLastOk(resolvedResults, i - 1, <<resolvedResults[i].error>> \o errors)

\* any scanning from the end: reports the last Ok instead of the first.
anyThenLastOk(resolvedResults) == anyLoopLastOk(resolvedResults, Len(resolvedResults), <<>>)

anyThen(resolvedResults) == anyLoop(resolvedResults, 1, <<>>)

\* The .then callback of the combinator, run once Promise.all has fulfilled.
ThenCallback ==
    /\ allPromise.state = "fulfilled"
    /\ output.state = "pending"
    /\ output' = Fulfilled(CASE combinator = "all" -> allThen(allPromise.value)
                             [] combinator = "all_v2" -> allThenV2(allPromise.value)
                             [] combinator = "any" -> anyThen(allPromise.value))
    /\ UNCHANGED <<combinator, results, settleOrder, allPromise>>
    /\ UNCHANGED combOthers

CombNext ==
    \/ \E i \in 1..MaxLen : Settle(i)
    \/ PromiseAll
    \/ ThenCallback

InitCombinators == CombInit /\ RetryIdle /\ PipeIdle /\ TimeoutIdle /\ ValidationIdle /\ LaterIdle

SpecCombinators == InitCombinators /\ [][CombNext]_vars

(***************************************************************************)
(* Claims about all / any.                                                 *)
(***************************************************************************)
\* The Result entry i has, or has settled to.
EntryResult(i) == PromiseResolve(results[i]).value

EntrySettled(i) == PromiseResolve(results[i]).state = "fulfilled"

MinOf(S) == CHOOSE i \in S : \A j \in S : i <= j

\* C1: whatever the order in which the asynchronous entries settle, all
\* resolves to Ok of the values in input order when every entry is Ok, and
\* otherwise to an Err with the error of the lowest-index Err entry.
C1_AllFirstErrByIndex ==
    (combinator \in {"all", "all_v2"} /\ output.state = "fulfilled") =>
        LET n == Len(results)
            errIdx == {i \in 1..n : isErr(EntryResult(i))}
        IN  IF errIdx = {}
            THEN /\ isOk(output.value)
                 /\ output.value.value = [i \in 1..n |-> EntryResult(i).value]
            ELSE /\ isErr(output.value)
                 /\ output.value.error = EntryResult(MinOf(errIdx)).error

\* all has resolved over two asynchronous entries that are both Err with
\* different errors, the higher index having settled first.
C1_Witness ==
    /\ combinator = "all"
    /\ output.state = "fulfilled"
    /\ \E i, j \in DOMAIN results :
          /\ i < j
          /\ settleOrder = <<j, i>>
          /\ isErr(EntryResult(i)) /\ isErr(EntryResult(j))
          /\ EntryResult(i).error # EntryResult(j).error

\* C2: whatever the settlement order, any resolves to Ok of the value of the
\* lowest-index Ok entry, and when every entry is Err to Err of the list of
\* every entry's error in input order.
C2_AnyFirstOkByIndex ==
    (combinator = "any" /\ output.state = "fulfilled") =>
        LET n == Len(results)
            okIdx == {i \in 1..n : isOk(EntryResult(i))}
        IN  IF okIdx # {}
            THEN /\ isOk(output.value)
                 /\ output.value.value = EntryResult(MinOf(okIdx)).value
            ELSE /\ isErr(output.value)
                 /\ output.value.error = [i \in 1..n |-> EntryResult(i).error]

\* any has resolved over entries of which two asynchronous ones are Ok with
\* different values, the higher index having settled first.
C2_Witness ==
    /\ combinator = "any"
    /\ output.state = "fulfilled"
    /\ \E i, j \in DOMAIN results :
          /\ i < j
          /\ settleOrder = <<j, i>>
          /\ isOk(EntryResult(i)) /\ isOk(EntryResult(j))
          /\ EntryResult(i).value # EntryResult(j).value

\* any over Err entries only, settled out of input order.
C2_WitnessAllErr ==
    /\ combinator = "any"
    /\ output.state = "fulfilled"
    /\ Len(results) = 2
    /\ settleOrder = <<2, 1>>
    /\ isErr(EntryResult(1)) /\ isErr(EntryResult(2))

RetryInit ==
    /\ maxAttempts \in 0..MaxAttempts
    /\ attempt = 1
    /\ retryPc = "loop"
    /\ awaited = Pending
    /\ fnResults = <<>>
    /\ calls = 0
    /\ delays = 0
    /\ retryOutput = Pending

\* for (...; attempt <= maxAttempts; ...) { ... fn() ...: fn returns a Result
\* or an AsyncResult, and the body awaits Promise.resolve of it.
RetryCall ==
    /\ retryPc = "loop"
    /\ attempt <= maxAttempts
    /\ calls' = calls + 1
    /\ \E r \in Results \cup {Pending} : awaited' = PromiseResolve(r)
    /\ retryPc' = "await"
    /\ UNCHANGED <<maxAttempts, attempt, fnResults, delays, retryOutput>>
    /\ UNCHANGED retryOthers

\* The AsyncResult fn returned fulfils.
FnSettle ==
    /\ retryPc = "await"
    /\ awaited.state = "pending"
    /\ \E r \in Results : awaited' = Fulfilled(r)
    /\ UNCHANGED <<maxAttempts, attempt, retryPc, fnResults, calls, delays, retryOutput>>
    /\ UNCHANGED retryOthers

\* A delay after every failed attempt, the last one included.
shouldDelayAlways(a, m) == a <= m

\* if (attempt < maxAttempts)
shouldDelay(a, m) == a < m

\* After the await: return an Ok, or wait before the next attempt.
RetryResume ==
    /\ retryPc = "await"
    /\ awaited.state = "fulfilled"
    /\ fnResults' = Append(fnResults, awaited.value)
    /\ IF isOk(awaited.value)
       THEN /\ retryOutput' = Fulfilled(awaited.value)
            /\ retryPc' = "done"
            /\ UNCHANGED <<attempt, delays>>
       ELSE IF shouldDelay(attempt, maxAttempts)
       THEN /\ retryPc' = "sleep"
            /\ delays' = delays + 1
            /\ UNCHANGED <<attempt, retryOutput>>
       ELSE /\ retryPc' = "loop"
            /\ attempt' = attempt + 1
            /\ UNCHANGED <<delays, retryOutput>>
    /\ UNCHANGED <<maxAttempts, awaited, calls>>
    /\ UNCHANGED retryOthers

\* The timer of the delay fires: attempt++ and back to the loop's test.
RetryWake ==
    /\ retryPc = "sleep"
    /\ retryPc' = "loop"
    /\ attempt' = attempt + 1
    /\ UNCHANGED <<maxAttempts, awaited, fnResults, calls, delays, retryOutput>>
    /\ UNCHANGED retryOthers

\* `Failed after ${maxAttempts} attempts`: a string error is modelled, like an
\* Error object, by its message.
exhaustedError(m) == [message |-> "Failed after " \o ToString(m) \o " attempts"]

\* The loop has run out: return the synthetic Err.
RetryExhausted ==
    /\ retryPc = "loop"
    /\ attempt > maxAttempts
    /\ retryOutput' = Fulfilled(Err(exhaustedError(maxAttempts)))
    /\ retryPc' = "done"
    /\ UNCHANGED <<maxAttempts, attempt, awaited, fnResults, calls, delays>>
    /\ UNCHANGED retryOthers

RetryNext ==
    \/ RetryCall
    \/ FnSettle
    \/ RetryResume
    \/ RetryWake
    \/ RetryExhausted

InitRetry == RetryInit /\ CombIdle /\ PipeIdle /\ TimeoutIdle /\ ValidationIdle /\ LaterIdle

SpecRetry == InitRetry /\ [][RetryNext]_vars

(***************************************************************************)
(* Claims about retry.                                                     *)
(***************************************************************************)
\* C4: retry invokes fn one call at a time, at most maxAttempts times, and
\* stops at the first Ok, which it returns; it waits after a failed attempt
\* only when another attempt follows: k failures then a success give k+1
\* invocations and k delays, maxAttempts failures give maxAttempts
\* invocations, maxAttempts-1 delays and an Err.
C4_RetryAttemptsAndDelays ==
    LET n == Len(fnResults) IN
    /\ calls <= maxAttempts
    /\ calls \in {n, n + 1}
    /\ (calls = n + 1) <=> (retryPc = "await")
    /\ \A i \in 1..(n - 1) : isErr(fnResults[i])
    /\ retryPc = "done" =>
          IF isOk(retryOutput.value)
          THEN /\ n >= 1
               /\ retryOutput.value = fnResults[n]
               /\ calls = n
               /\ delays = n - 1
          ELSE /\ \A i \in 1..n : isErr(fnResults[i])
               /\ calls = maxAttempts
               /\ delays = IF maxAttempts = 0 THEN 0 ELSE maxAttempts - 1

\* fn failed twice and then succeeded: three invocations, two delays, Ok.
C4_Witness ==
    /\ retryPc = "done"
    /\ isOk(retryOutput.value)
    /\ calls = 3
    /\ delays = 2

\* Every one of three attempts failed: three invocations, two delays, Err.
C4_WitnessExhausted ==
    /\ retryPc = "done"
    /\ isErr(retryOutput.value)
    /\ maxAttempts = 3
    /\ calls = 3
    /\ delays = 2

\* An error retains a cause when it is the cause or carries it.
Retains(e, cause) == e = cause \/ ("cause" \in DOMAIN e /\ e.cause = cause)

\* C5: when every attempt fails, the Err retry returns retains the last error
\* fn returned.
C5_RetainsLastCause ==
    (retryPc = "done" /\ isErr(retryOutput.value) /\ Len(fnResults) >= 1) =>
        Retains(retryOutput.value.error, fnResults[Len(fnResults)].error)

(***************************************************************************)
(* pipeline.                                                               *)
(***************************************************************************)
\* The steps a pipeline is built from: a step maps a value to a Result, and
\* delivers it at once or as an AsyncResult.
StepOps == {"add10", "double", "failIfOver5", "tooBig"}

Steps == [op : StepOps, async : BOOLEAN]

stepResult(fn, x) ==
    CASE fn.op = "add10" -> Ok(x + 10)
      [] fn.op = "double" -> Ok(x * 2)
      [] fn.op = "failIfOver5" -> IF x > 5 THEN Err([message |-> "over 5"]) ELSE Ok(x)
      [] fn.op = "tooBig" -> Err([message |-> "too big"])

PipeInit ==
    /\ pipeVersion \in {"pipeline", "pipeline_v2"}
    /\ fns \in SeqsUpTo(Steps, MaxSteps)
    /\ initialValue \in Values
    /\ pipeIdx = 1
    /\ pipePc = "loop"
    /\ pipeResult = Ok(initialValue)
    /\ nextResult = Ok(initialValue)
    /\ invoked = <<>>
    /\ pipeOutput = Pending

\* Ok.safeUnwrap / Err.safeUnwrap: whatever is inside.
safeUnwrap(r) == IF isOk(r) THEN r.value ELSE r.error

\* Every step is given the value the pipeline was applied to.
stepArgInitial(result) == initialValue

\* fn(result.value), and in the second version fn(result.safeUnwrap()).
stepArg(result) == IF pipeVersion = "pipeline" THEN result.value ELSE safeUnwrap(result)

\* One turn of the for loop: return an Err, or invoke the step.
PipeStep ==
    /\ pipePc = "loop"
    /\ pipeIdx <= Len(fns)
    /\ IF isErr(pipeResult)
       THEN /\ pipeOutput' = Fulfilled(pipeResult)
            /\ pipePc' = "done"
            /\ UNCHANGED <<pipeIdx, pipeResult, nextResult, invoked>>
       ELSE LET arg == stepArg(pipeResult)
                r == stepResult(fns[pipeIdx], arg)
            IN  /\ invoked' = Append(invoked, [index |-> pipeIdx, arg |-> arg])
                /\ IF fns[pipeIdx].async
                   THEN /\ nextResult' = r
                        /\ pipePc' = "await"
                        /\ UNCHANGED <<pipeIdx, pipeResult>>
                   ELSE /\ pipeResult' = r
                        /\ pipeIdx' = pipeIdx + 1
                        /\ UNCHANGED <<nextResult, pipePc>>
                /\ UNCHANGED pipeOutput
    /\ UNCHANGED <<pipeVersion, fns, initialValue>>
    /\ UNCHANGED pipeOthers

\* result = await nextResult
PipeAwait ==
    /\ pipePc = "await"
    /\ pipeResult' = nextResult
    /\ pipeIdx' = pipeIdx + 1
    /\ pipePc' = "loop"
    /\ UNCHANGED <<pipeVersion, fns, initialValue, nextResult, invoked, pipeOutput>>
    /\ UNCHANGED pipeOthers

\* The loop is over: return result.
PipeReturn ==
    /\ pipePc = "loop"
    /\ pipeIdx > Len(fns)
    /\ pipeOutput' = Fulfilled(pipeResult)
    /\ pipePc' = "done"
    /\ UNCHANGED <<pipeVersion, fns, initialValue, pipeIdx, pipeResult, nextResult, invoked>>
    /\ UNCHANGED pipeOthers

PipeNext ==
    \/ PipeStep
    \/ PipeAwait
    \/ PipeReturn

InitPipeline == PipeInit /\ CombIdle /\ RetryIdle /\ TimeoutIdle /\ ValidationIdle /\ LaterIdle

SpecPipeline == InitPipeline /\ [][PipeNext]_vars

(***************************************************************************)
(* Claims about pipeline.                                                  *)
(***************************************************************************)
\* What the j-th invoked step delivered.
Delivered(j) == stepResult(fns[invoked[j].index], invoked[j].arg)

\* C6: the steps are invoked in list order, the first with the initial value
\* and each later one with the unwrapped Ok value of the step before it, an
\* asynchronous step being awaited before the next one starts; once a step
\* yields Err no later step is invoked and the pipeline resolves to that Err.
C6_PipelineShortCircuit ==
    LET n == Len(invoked) IN
    /\ \A j \in 1..n : invoked[j].index = j
    /\ n >= 1 => invoked[1].arg = initialValue
    /\ \A j \in 2..n : isOk(Delivered(j - 1)) /\ invoked[j].arg = Delivered(j - 1).value
    /\ pipePc = "await" => pipeIdx = n
    /\ pipePc = "done" =>
          /\ pipeOutput.state = "fulfilled"
          /\ IF n = 0
             THEN fns = <<>> /\ pipeOutput.value = Ok(initialValue)
             ELSE /\ pipeOutput.value = Delivered(n)
                  /\ isOk(Delivered(n)) => n = Len(fns)

\* Three steps, the first asynchronous and Ok, the second Err: the third was
\* never invoked and the pipeline resolved to the second step's Err.
C6_Witness ==
    /\ pipePc = "done"
    /\ Len(fns) = 3
    /\ fns[1].async
    /\ Len(invoked) = 2
    /\ isErr(pipeOutput.value)
    /\ pipeOutput.value.error = [message |-> "too big"]
    /\ invoked[2].arg = initialValue + 10

(***************************************************************************)
(* fromPromise and withTimeout.                                            *)
(*                                                                         *)
(* withTimeout(asyncResult, timeoutMs) has just been called: the timer is  *)
(* armed and the reaction on asyncResult is registered.  asyncResult is    *)
(* either an AsyncResult of the caller's, which may be settled already     *)
(* and may reject, or fromPromise(promise).                                *)
(***************************************************************************)
Settlements(V) == {Fulfilled(v) : v \in V} \cup {Rejected(e) : e \in Errors}

\* The reactions that a promise in this state has ready, given its one reaction.
ReadyJobs(p, job) == IF p.state = "pending" THEN <<>> ELSE <<job>>

TimeoutInit ==
    /\ viaFromPromise \in BOOLEAN
    /\ IF viaFromPromise
       THEN /\ promise \in {Pending} \cup Settlements(Values)
            /\ asyncResult = Pending
            /\ microtasks = ReadyJobs(promise, "fromPromise")
            /\ events = <<>>
       ELSE /\ promise = Pending
            /\ asyncResult \in {Pending} \cup Settlements(Results)
            /\ microtasks = ReadyJobs(asyncResult, "withTimeout")
            /\ events = IF asyncResult.state = "pending" THEN <<>> ELSE <<"settled">>
    /\ timeoutMs \in 0..MaxTimeout
    /\ now = 0
    /\ timer = "armed"
    /\ unhandled = FALSE
    /\ wtOutput = Pending

\* The promise given to fromPromise settles.
PromiseSettle ==
    /\ viaFromPromise
    /\ promise.state = "pending"
    /\ promise' \in Settlements(Values)
    /\ microtasks' = Append(microtasks, "fromPromise")
    /\ UNCHANGED <<viaFromPromise, asyncResult, timeoutMs, now, timer, events, unhandled,
                   wtOutput>>
    /\ UNCHANGED timeoutOthers

\* fromPromise without a rejection handler: the rejection passes through.
fromPromiseNoCatch(p) ==
    IF p.state = "fulfilled" THEN Fulfilled(Ok(p.value)) ELSE Rejected(p.reason)

\* promise.then((value) => new Ok(value), (error) => new Err(error))
fromPromise(p) ==
    IF p.state = "fulfilled" THEN Fulfilled(Ok(p.value)) ELSE Fulfilled(Err(p.reason))

\* The reaction fromPromise registered runs and settles its return value.
FromPromiseReaction ==
    /\ microtasks # <<>>
    /\ Head(microtasks) = "fromPromise"
    /\ asyncResult' = fromPromise(promise)
    /\ microtasks' = Append(Tail(microtasks), "withTimeout")
    /\ events' = Append(events, "settled")
    /\ UNCHANGED <<viaFromPromise, promise, timeoutMs, now, timer, unhandled, wtOutput>>
    /\ UNCHANGED timeoutOthers

\* The caller's AsyncResult settles: it fulfils with a Result, or rejects.
AsyncResultSettle ==
    /\ ~viaFromPromise
    /\ asyncResult.state = "pending"
    /\ asyncResult' \in Settlements(Results)
    /\ microtasks' = Append(microtasks, "withTimeout")
    /\ events' = Append(events, "settled")
    /\ UNCHANGED <<viaFromPromise, promise, timeoutMs, now, timer, unhandled, wtOutput>>
    /\ UNCHANGED timeoutOthers

\* resolve of new Promise((resolve) => ...): only the first call has an effect.
resolve(p, v) == IF p.state = "pending" THEN Fulfilled(v) ELSE p

\* clearTimeout(timeoutId)
clearTimeout(t) == IF t = "armed" THEN "cleared" ELSE t

\* new Error(`Operation timed out after ${timeoutMs}ms`)
timeoutError(ms) == [message |-> "Operation timed out after " \o ToString(ms) \o "ms"]

\* The reaction asyncResult.then((result) => ...) runs.  It has no rejection
\* handler: on a rejection the promise .then made rejects, and nothing handles it.
WithTimeoutReaction ==
    /\ microtasks # <<>>
    /\ Head(microtasks) = "withTimeout"
    /\ microtasks' = Tail(microtasks)
    /\ IF asyncResult.state = "fulfilled"
       THEN /\ timer' = clearTimeout(timer)
            /\ wtOutput' = resolve(wtOutput, asyncResult.value)
            /\ UNCHANGED unhandled
       ELSE /\ unhandled' = TRUE
            /\ UNCHANGED <<timer, wtOutput>>
    /\ UNCHANGED <<viaFromPromise, promise, asyncResult, timeoutMs, now, events>>
    /\ UNCHANGED timeoutOthers

\* Time passes; the reactions that are ready run first.
Tick ==
    /\ microtasks = <<>>
    /\ now < timeoutMs
    /\ now' = now + 1
    /\ UNCHANGED <<viaFromPromise, promise, asyncResult, timeoutMs, timer, microtasks, events,
                   unhandled, wtOutput>>
    /\ UNCHANGED timeoutOthers

\* The setTimeout callback runs, timeoutMs or more after the call.
TimerFire ==
    /\ microtasks = <<>>
    /\ timer = "armed"
    /\ now >= timeoutMs
    /\ timer' = "fired"
    /\ wtOutput' = resolve(wtOutput, Err(timeoutError(timeoutMs)))
    /\ events' = Append(events, "timer")
    /\ UNCHANGED <<viaFromPromise, promise, asyncResult, timeoutMs, now, microtasks, unhandled>>
    /\ UNCHANGED timeoutOthers

TimeoutNext ==
    \/ PromiseSettle
    \/ FromPromiseReaction
    \/ AsyncResultSettle
    \/ WithTimeoutReaction
    \/ Tick
    \/ TimerFire

InitTimeout == TimeoutInit /\ CombIdle /\ RetryIdle /\ PipeIdle /\ ValidationIdle /\ LaterIdle

SpecTimeout == InitTimeout /\ [][TimeoutNext]_vars

(***************************************************************************)
(* Claims about withTimeout and fromPromise.                               *)
(***************************************************************************)
TimerFirst == events # <<>> /\ events[1] = "timer"

FulfilledFirst ==
    events # <<>> /\ events[1] = "settled" /\ asyncResult.state = "fulfilled"

ReactionPending(job) == \E k \in DOMAIN microtasks : microtasks[k] = job

C7_Step ==
    /\ wtOutput.state # "pending" => wtOutput' = wtOutput
    /\ timer = "cleared" => timer' = "cleared"

SettledFirst == events # <<>> /\ events[1] = "settled"

C7_StateAsClaimed ==
    /\ TimerFirst => wtOutput = Fulfilled(Err(timeoutError(timeoutMs)))
    /\ SettledFirst =>
          /\ timer # "fired"
          /\ events = <<"settled">>
          /\ ~ReactionPending("withTimeout") =>
                /\ timer = "cleared"
                /\ wtOutput.state = "fulfilled"
                /\ asyncResult.state = "fulfilled" => wtOutput.value = asyncResult.value

\* C7: withTimeout resolves exactly once.  When the timer fires before the
\* inner future settles the result is the timeout Err, and the inner future's
\* later settlement does not change it; when the inner future settles first
\* the result is the inner Result, and the timer is cancelled, so that no
\* timeout Err is produced afterwards.
C7_AsClaimed == []C7_StateAsClaimed /\ [][C7_Step]_vars

C7_StateWhenFulfilled ==
    /\ TimerFirst => wtOutput = Fulfilled(Err(timeoutError(timeoutMs)))
    /\ FulfilledFirst =>
          /\ timer # "fired"
          /\ events = <<"settled">>
          /\ ~ReactionPending("withTimeout") =>
                /\ timer = "cleared"
                /\ wtOutput = Fulfilled(asyncResult.value)

\* The same with "settles first" read as "fulfils with a Result first": this
\* holds, a rejection of the inner future being the one case that breaks C7.
C7_WhenInnerFulfils == []C7_StateWhenFulfilled /\ [][C7_Step]_vars

\* The timer fired first and the inner future then fulfilled with a Result,
\* whose reaction has run.
C7_TimerFirstReached ==
    /\ events = <<"timer", "settled">>
    /\ asyncResult.state = "fulfilled"
    /\ microtasks = <<>>
    /\ isErr(wtOutput.value)

\* The inner future fulfilled first, with time left on the timer.
C7_InnerFirstReached ==
    /\ FulfilledFirst
    /\ microtasks = <<>>
    /\ now < timeoutMs
    /\ timer = "cleared"

\* C8: no settlement of the inner future, a rejection included, and before or
\* after the timer fires, leaves a rejection unhandled, and the future
\* withTimeout returns never rejects.
C8_NoUnhandledRejection == ~unhandled /\ wtOutput.state # "rejected"

\* C9: the future fromPromise returns never rejects: it resolves to Ok(value)
\* when the promise fulfils with value and to Err(reason) when it rejects
\* with reason.
C9_FromPromiseNeverRejects ==
    viaFromPromise =>
        /\ asyncResult.state # "rejected"
        /\ asyncResult.state = "fulfilled" =>
              \/ promise.state = "fulfilled" /\ asyncResult.value = Ok(promise.value)
              \/ promise.state = "rejected" /\ asyncResult.value = Err(promise.reason)
        /\ (promise.state # "pending" /\ ~ReactionPending("fromPromise")) =>
              asyncResult.state = "fulfilled"

\* The promise rejected and fromPromise's future resolved to the Err of its reason.
C9_Witness ==
    /\ viaFromPromise
    /\ promise.state = "rejected"
    /\ asyncResult.state = "fulfilled"
    /\ isErr(asyncResult.value)

(***************************************************************************)
(* Validation.                                                             *)
(***************************************************************************)
Valid(v) == [tag |-> "Valid", value |-> v]

Invalid(errs) == [tag |-> "Invalid", errors |-> errs]

isValid(v) == v.tag = "Valid"

\* valid(value)
valid(v) == Valid(v)

\* invalid(...errors): the rest parameter takes any number of errors, none included.
invalid(errs) == Invalid(errs)

ValidationErrors == {"a", "b"}

Validations ==
    {valid(v) : v \in Values} \cup {invalid(errs) : errs \in SeqsUpTo(ValidationErrors, MaxErrors)}

RECURSIVE combineLoop(_, _, _, _)
combineLoop(vs, i, values, errors) ==
    IF i > Len(vs)
    THEN IF Len(errors) > 0 THEN invalid(errors) ELSE valid(values)
    ELSE IF isValid(vs[i])
    THEN combineLoop(vs, i + 1, Append(values, vs[i].value), errors)
    ELSE combineLoop(vs, i + 1, values, errors \o vs[i].errors)

combineValidations(vs) == combineLoop(vs, 1, <<>>, <<>>)

ValidationInit ==
    /\ validations \in SeqsUpTo(Validations, MaxValidations)
    /\ combined = NotCalled

Combine ==
    /\ combined = NotCalled
    /\ combined' = combineValidations(validations)
    /\ UNCHANGED validations
    /\ UNCHANGED validationOthers

ValidationNext == Combine

InitValidation == ValidationInit /\ CombIdle /\ RetryIdle /\ PipeIdle /\ TimeoutIdle /\ LaterIdle

SpecValidation == InitValidation /\ [][ValidationNext]_vars

(***************************************************************************)
(* Claims about Validation.                                                *)
(***************************************************************************)
RECURSIVE ErrorsFrom(_, _)
\* The errors of the Invalid entries of vs from index i on, in input order.
ErrorsFrom(vs, i) ==
    IF i > Len(vs) THEN <<>>
    ELSE (IF isValid(vs[i]) THEN <<>> ELSE vs[i].errors) \o ErrorsFrom(vs, i + 1)

CombinedAsClaimed ==
    IF \A i \in DOMAIN validations : isValid(validations[i])
    THEN combined = Valid([i \in DOMAIN validations |-> validations[i].value])
    ELSE combined = Invalid(ErrorsFrom(validations, 1))

\* C10: combineValidations returns Valid of the values in input order when
\* every entry is Valid, and otherwise Invalid of the concatenation, in input
\* order, of the errors of all the Invalid entries.
C10_CombineValidations == combined # NotCalled => CombinedAsClaimed

\* The same for lists whose Invalid entries all hold an error: this holds, an
\* Invalid without errors being the one case that breaks C10.
C10_WithNonEmptyInvalids ==
    (/\ combined # NotCalled
     /\ \A i \in DOMAIN validations : isValid(validations[i]) \/ validations[i].errors # <<>>)
        => CombinedAsClaimed

\* [invalid("a"), valid(1), invalid("b")] gave invalid("a", "b").
C10_Example ==
    /\ validations = <<invalid(<<"a">>), valid(1), invalid(<<"b">>)>>
    /\ combined = invalid(<<"a", "b">>)

(***************************************************************************)
(* Option.                                                                 *)
(***************************************************************************)
Some(v) == [tag |-> "Some", value |-> v]

None == [tag |-> "None"]

isSome(o) == o.tag = "Some"

\* some(value)
some(v) == Some(v)

\* none()
none == None

(***************************************************************************)
(* The Validation API.                                                     *)
(***************************************************************************)
MaxCalls == 3

MaxItems == 2

\* Callbacks for map: x => x and () => 1.
ValueFns == {"id", "one"}

Apply(fn, x) == IF fn = "id" THEN x ELSE 1

\* Callbacks for mapError, from the list of errors to a list of errors:
\* errors => errors, errors => errors.slice(0, 1) and () => [].
ErrorsFns == {"same", "first", "clear"}

ApplyErrors(fn, errors) ==
    CASE fn = "same" -> errors
      [] fn = "first" -> SubSeq(errors, 1, IF Len(errors) > 0 THEN 1 ELSE 0)
      [] fn = "clear" -> <<>>

\* Validators for validateAll: x => valid(x), x => x === 1 ? valid(x) : invalid("a")
\* and () => invalid("a", "b").
Validators == {"accept", "one", "reject"}

ApplyValidator(fn, x) ==
    CASE fn = "accept" -> valid(x)
      [] fn = "one" -> IF x = 1 THEN valid(x) ELSE invalid(<<"a">>)
      [] fn = "reject" -> invalid(<<"a", "b">>)

\* Valid.map / Invalid.map
ValidationMap(self, fn) ==
    IF isValid(self) THEN Valid(Apply(fn, self.value)) ELSE Invalid(self.errors)

\* Valid.mapError / Invalid.mapError
ValidationMapError(self, fn) ==
    IF isValid(self) THEN Valid(self.value) ELSE Invalid(ApplyErrors(fn, self.errors))

\* Valid.and / Invalid.and
ValidationAnd(self, other) == IF isValid(self) THEN other ELSE Invalid(self.errors)

\* Valid.or / Invalid.or
ValidationOr(self, other) == IF isValid(self) THEN self ELSE other

\* Valid.toResult
ValidToResult(self) == Ok(self.value)

InvalidToResultFirstOnly(self) ==
    Err(IF Len(self.errors) > 1 THEN <<self.errors[1]>> ELSE self.errors)

\* Invalid.toResult
InvalidToResult(self) == Err(self.errors)

ValidationToResult(self) == IF isValid(self) THEN ValidToResult(self) ELSE InvalidToResult(self)

\* validateAll(items, validator) = combineValidations(items.map(validator))
validateAll(items, validator) ==
    combineValidations([i \in DOMAIN items |-> ApplyValidator(validator, items[i])])

\* fromResult(result) = result.match({ok: valid, err: invalid}); its argument
\* is a Result whose errors are of the type of the Validation's.
fromResult(result) == IF isOk(result) THEN valid(result.value) ELSE invalid(<<result.error>>)

\* fromOption(option, error) = option.match({some: valid, none: () => invalid(error)})
fromOption(option, error) == IF isSome(option) THEN valid(option.value) ELSE invalid(<<error>>)

ApiInit ==
    /\ subject = NotCalled
    /\ apiOp = ""
    /\ apiCalls = 0
    /\ apiArg = NotCalled
    /\ converted = NotCalled

\* The API is in use and the bound on the number of calls is not reached.
CanCall == apiOp # "off" /\ apiCalls < MaxCalls

\* A call of the API, given the Result arg if any, returns the Validation v.
MadeFrom(op, arg, v) ==
    /\ subject' = v
    /\ apiOp' = op
    /\ apiCalls' = apiCalls + 1
    /\ apiArg' = arg
    /\ converted' = NotCalled
    /\ UNCHANGED apiOthers

Made(op, v) == MadeFrom(op, NotCalled, v)

\* A call has returned a Validation, whose methods can be called.
HasSubject == apiOp \notin {"", "off"}

CallValid ==
    /\ CanCall
    /\ \E v \in Values : Made("valid", valid(v))

CallInvalid ==
    /\ CanCall
    /\ \E errs \in SeqsUpTo(ValidationErrors, MaxErrors) : Made("invalid", invalid(errs))

CallFromResult ==
    /\ CanCall
    /\ \E r \in {Ok(v) : v \in Values} \cup {Err(e) : e \in ValidationErrors} :
          MadeFrom("fromResult", r, fromResult(r))

CallFromOption ==
    /\ CanCall
    /\ \E o \in {some(v) : v \in Values} \cup {none}, e \in ValidationErrors :
          Made("fromOption", fromOption(o, e))

CallCombineValidations ==
    /\ CanCall
    /\ \E vs \in SeqsUpTo(Validations, MaxItems) :
          Made("combineValidations", combineValidations(vs))

CallValidateAll ==
    /\ CanCall
    /\ \E items \in SeqsUpTo(Values, MaxItems), validator \in Validators :
          Made("validateAll", validateAll(items, validator))

CallMap ==
    /\ CanCall /\ HasSubject
    /\ \E fn \in ValueFns : Made("map", ValidationMap(subject, fn))

CallMapError ==
    /\ CanCall /\ HasSubject
    /\ \E fn \in ErrorsFns : Made("mapError", ValidationMapError(subject, fn))

CallAnd ==
    /\ CanCall /\ HasSubject
    /\ \E other \in Validations : Made("and", ValidationAnd(subject, other))

CallOr ==
    /\ CanCall /\ HasSubject
    /\ \E other \in Validations : Made("or", ValidationOr(subject, other))

\* subject.toResult()
CallToResult ==
    /\ CanCall /\ HasSubject
    /\ converted' = ValidationToResult(subject)
    /\ apiOp' = "toResult"
    /\ apiCalls' = apiCalls + 1
    /\ UNCHANGED <<subject, apiArg>>
    /\ UNCHANGED apiOthers

ApiNext ==
    \/ CallToResult
    \/ CallValid
    \/ CallInvalid
    \/ CallFromResult
    \/ CallFromOption
    \/ CallCombineValidations
    \/ CallValidateAll
    \/ CallMap
    \/ CallMapError
    \/ CallAnd
    \/ CallOr

InitValidationApi ==
    ApiInit /\ EarlierIdle /\ ValidationIdle /\ ResultIdle /\ OpIdle /\ ExtraIdle

SpecValidationApi == InitValidationApi /\ [][ApiNext]_vars

\* The constructors, the conversions and the methods of a Validation, without
\* the two functions over arrays.
ConversionNext ==
    \/ CallToResult
    \/ CallValid
    \/ CallInvalid
    \/ CallFromResult
    \/ CallFromOption
    \/ CallMap
    \/ CallMapError
    \/ CallAnd
    \/ CallOr

SpecConversion == InitValidationApi /\ [][ConversionNext]_vars

(***************************************************************************)
(* Claims about the Validation API.                                        *)
(***************************************************************************)
\* C11: every Invalid value that a call of the public Validation API returns
\* (invalid, map, mapError, and, or, combineValidations, validateAll,
\* fromResult, fromOption) holds at least one error.
C11_InvalidHoldsAnError ==
    (HasSubject /\ ~isValid(subject)) => Len(subject.errors) > 0

(***************************************************************************)
(* Result: the methods of Ok and Err.  A Result is modelled by its tag and *)
(* its payload.                                                            *)
(***************************************************************************)
MaxChain == 2

\* What a call did.
Return(v) == [kind |-> "return", value |-> v]

Throw(e) == [kind |-> "throw", error |-> e]

\* The return value of a call and the callback invocations it made.
Did(out, log) == [out |-> out, log |-> log]

Inv(fn, x) == [fn |-> fn, arg |-> x]

NoArgument == [name |-> "none"]

\* Callbacks.  x => x
Id == [name |-> "id"]

\* () => c
Const(c) == [name |-> "const", value |-> c]

\* x => 3 - x
Swap == [name |-> "swap"]

\* v => ok(v)
WrapOk == [name |-> "ok"]

\* e => err(e)
WrapErr == [name |-> "err"]

\* x => x === 1 ? ok(x) : err(e)
OkIfOne(e) == [name |-> "okIfOne", error |-> e]

\* otherValue => [left, otherValue]
Pair(left) == [name |-> "pair", left |-> left]

\* x => f(x).andThen(g)
Kleisli(f, g) == [name |-> "kleisli", f |-> f, g |-> g]

\* e => e.message === "x" ? 1 : 2
ByMessage == [name |-> "byMessage"]

RECURSIVE Call(_, _)

RECURSIVE Invoke(_, _, _)

\* Some.map
SomeMap(self, fn) == Did(Return(Some(Call(fn, self.value))), <<Inv(fn, self.value)>>)

\* None.map
NoneMap(self, fn) == Did(Return(self), <<>>)

OptionMap(self, fn) == IF isSome(self) THEN SomeMap(self, fn) ELSE NoneMap(self, fn)

\* The members of Some and of None, which are those of the interface Option.
OptionMembers ==
    {"isSome", "isNone", "map", "unwrapOr", "unwrap", "match", "and", "or", "andThen",
     "orElse", "filter", "unwrapOrElse", "flatten", "zip", "contains"}

\* The TypeError of a call of a member an object does not have.
NotAFunction(name) == [message |-> name \o " is not a function"]

OkMap(self, fn) == Did(Return(Ok(Call(fn, self.value))), <<Inv(fn, self.value)>>)

ErrMap(self, fn) == Did(Return(Err(self.error)), <<>>)

OkMapErr(self, fn) == Did(Return(self), <<>>)

ErrMapErr(self, fn) == Did(Return(Err(Call(fn, self.error))), <<Inv(fn, self.error)>>)

OkUnwrapOr(self, defaultValue) == Did(Return(self.value), <<>>)

ErrUnwrapOr(self, defaultValue) == Did(Return(defaultValue), <<>>)

OkUnwrap(self) == Did(Return(self.value), <<>>)

\* An unwrap that hands the error back, as safeUnwrap does.
ErrUnwrapReturns(self) == Did(Return(self.error), <<>>)

\* throw this.value
ErrUnwrap(self) == Did(Throw(self.error), <<>>)

OkSafeUnwrap(self) == Did(Return(self.value), <<>>)

ErrSafeUnwrap(self) == Did(Return(self.error), <<>>)

OkMatch(self, pattern) == Did(Return(Call(pattern.ok, self.value)), <<Inv(pattern.ok, self.value)>>)

ErrMatchBothBranches(self, pattern) ==
    Did(Return(Call(pattern.err, self.error)),
        <<Inv(pattern.ok, self.error), Inv(pattern.err, self.error)>>)

ErrMatch(self, pattern) ==
    Did(Return(Call(pattern.err, self.error)), <<Inv(pattern.err, self.error)>>)

OkAnd(self, resb) == Did(Return(resb), <<>>)

ErrAnd(self, resb) == Did(Return(Err(self.error)), <<>>)

OkOr(self, resb) == Did(Return(self), <<>>)

ErrOr(self, resb) == Did(Return(resb), <<>>)

\* An andThen that keeps the receiver when fn fails.
OkAndThenSwallows(self, fn) ==
    Did(Return(IF isOk(Call(fn, self.value)) THEN Call(fn, self.value) ELSE self),
        <<Inv(fn, self.value)>>)

OkAndThen(self, fn) == Did(Return(Call(fn, self.value)), <<Inv(fn, self.value)>>)

\* An andThen that invokes fn on an Err before passing the Err on.
ErrAndThenInvokes(self, fn) == Did(Return(Err(self.error)), <<Inv(fn, self.error)>>)

ErrAndThen(self, fn) == Did(Return(Err(self.error)), <<>>)

OkOrElse(self, fn) == Did(Return(self), <<>>)

ErrOrElse(self, fn) == Did(Return(Call(fn, self.error)), <<Inv(fn, self.error)>>)

OkUnwrapOrElse(self, fn) == Did(Return(self.value), <<>>)

ErrUnwrapOrElse(self, fn) == Did(Return(Call(fn, self.error)), <<Inv(fn, self.error)>>)

\* this.value.map(v => ok(v))
OkTranspose(self) == OptionMap(self.value, WrapOk)

\* A transpose that turns an Err into None.
ErrTransposeNone(self) == Did(Return(none), <<>>)

\* some(new Err(this.value))
ErrTranspose(self) == Did(Return(some(Err(self.error))), <<>>)

\* other.map(otherValue => [this.value, otherValue])
OkZip(self, other) == Invoke("map", other, Pair(self.value))

\* A zip that lets the error of the other operand win.
ErrZipRight(self, other) ==
    Did(Return(IF isErr(other) THEN Err(other.error) ELSE Err(self.error)), <<>>)

ErrZip(self, other) == Did(Return(Err(self.error)), <<>>)

\* self.name(arg): the method of the class of self.
Invoke(name, self, arg) ==
    CASE name = "isOk" -> Did(Return(isOk(self)), <<>>)
      [] name = "isErr" -> Did(Return(isErr(self)), <<>>)
      [] name = "map" -> IF isOk(self) THEN OkMap(self, arg) ELSE ErrMap(self, arg)
      [] name = "mapErr" -> IF isOk(self) THEN OkMapErr(self, arg) ELSE ErrMapErr(self, arg)
      [] name = "unwrapOr" -> IF isOk(self) THEN OkUnwrapOr(self, arg) ELSE ErrUnwrapOr(self, arg)
      [] name = "unwrap" -> IF isOk(self) THEN OkUnwrap(self) ELSE ErrUnwrap(self)
      [] name = "safeUnwrap" -> IF isOk(self) THEN OkSafeUnwrap(self) ELSE ErrSafeUnwrap(self)
      [] name = "match" -> IF isOk(self) THEN OkMatch(self, arg) ELSE ErrMatch(self, arg)
      [] name = "and" -> IF isOk(self) THEN OkAnd(self, arg) ELSE ErrAnd(self, arg)
      [] name = "or" -> IF isOk(self) THEN OkOr(self, arg) ELSE ErrOr(self, arg)
      [] name = "andThen" -> IF isOk(self) THEN OkAndThen(self, arg) ELSE ErrAndThen(self, arg)
      [] name = "orElse" -> IF isOk(self) THEN OkOrElse(self, arg) ELSE ErrOrElse(self, arg)
      [] name = "unwrapOrElse" ->
            IF isOk(self) THEN OkUnwrapOrElse(self, arg) ELSE ErrUnwrapOrElse(self, arg)
      [] name = "transpose" -> IF isOk(self) THEN OkTranspose(self) ELSE ErrTranspose(self)
      [] name = "zip" -> IF isOk(self) THEN OkZip(self, arg) ELSE ErrZip(self, arg)

\* fn(x)
Call(fn, x) ==
    CASE fn.name = "id" -> x
      [] fn.name = "const" -> fn.value
      [] fn.name = "swap" -> 3 - x
      [] fn.name = "ok" -> Ok(x)
      [] fn.name = "err" -> Err(x)
      [] fn.name = "okIfOne" -> IF x = 1 THEN Ok(x) ELSE Err(fn.error)
      [] fn.name = "pair" -> <<fn.left, x>>
      [] fn.name = "byMessage" -> IF x.message = "x" THEN 1 ELSE 2
      [] fn.name = "kleisli" -> Invoke("andThen", Call(fn.f, x), fn.g).out.value

\* The methods that return a Result, on which a further method can be called.
ResultReturning == {"map", "mapErr", "and", "or", "andThen", "orElse", "zip"}

ErrorX == [message |-> "x"]

ErrorY == [message |-> "y"]

\* The values of the payload type t: number, Option<number> or [number, number].
Inhabitants(t) ==
    CASE t = "number" -> Values
      [] t = "Option" -> {some(v) : v \in Values} \cup {none}
      [] t = "pair" -> {<<1, 2>>}

\* The Results of payload type t.
ResultsOf(t) == {Ok(v) : v \in Inhabitants(t)} \cup {Err(e) : e \in Errors}

\* The callbacks andThen and chain can be given on a payload of type t.
AndThenFns(t) ==
    {WrapOk, Const(Err(ErrorX)), Const(Err(ErrorY))}
        \cup (IF t = "number" THEN {OkIfOne(ErrorY), Const(Ok(2))} ELSE {})

\* The operations of Result.
ResultMethods ==
    {"isOk", "isErr", "map", "mapErr", "andThen", "orElse", "match", "and", "or", "zip",
     "transpose", "unwrapOr", "unwrapOrElse", "safeUnwrap", "unwrap"}

\* The arguments the method name can be given on a receiver of payload type t;
\* transpose is declared for a receiver whose payload is an Option.
Arguments(name, t) ==
    CASE name \in {"isOk", "isErr", "unwrap", "safeUnwrap"} -> {NoArgument}
      [] name = "transpose" -> IF t = "Option" THEN {NoArgument} ELSE {}
      [] name = "map" -> {Id, Const(1)} \cup (IF t = "number" THEN {Swap} ELSE {})
      [] name = "mapErr" -> {Id, Const(ErrorY)}
      [] name = "andThen" -> AndThenFns(t)
      [] name = "orElse" -> {WrapErr, Const(Err(ErrorY))} \cup {Const(Ok(v)) : v \in Inhabitants(t)}
      [] name = "match" -> {[ok |-> Id, err |-> Id], [ok |-> Const(1), err |-> Const(2)]}
      [] name \in {"and", "or"} -> ResultsOf(t)
      [] name = "zip" -> ResultsOf("number")
      [] name = "unwrapOr" -> Inhabitants(t)
      [] name = "unwrapOrElse" -> {Const(v) : v \in Inhabitants(t)}

\* The payload type of the Result that the call returns.
ReturnType(name, arg, t) ==
    CASE name = "map" -> IF arg.name = "id" THEN t ELSE "number"
      [] name = "zip" -> "pair"
      [] OTHER -> t

ResultInit ==
    /\ T \in {"number", "Option"}
    /\ receiver \in ResultsOf(T)
    /\ previous = NotCalled
    /\ method = ""
    /\ argument = NotCalled
    /\ outcome = NotCalled
    /\ fnLog = <<>>
    /\ chained = 0

\* A method can be called: on the first receiver, or on the Result the last call returned.
CanInvoke == method \in {""} \cup ResultReturning /\ chained < MaxChain

Target == IF method = "" THEN receiver ELSE outcome.value

\* The call Target.name(arg).
CallMethod ==
    /\ CanInvoke
    /\ \E name \in ResultMethods :
          \E arg \in Arguments(name, T) :
             /\ outcome' = Invoke(name, Target, arg).out
             /\ fnLog' = Invoke(name, Target, arg).log
             /\ method' = name
             /\ argument' = arg
             /\ T' = ReturnType(name, arg, T)
    /\ previous' = IF method = "" THEN NotCalled
                   ELSE [receiver |-> receiver, method |-> method, argument |-> argument]
    /\ receiver' = Target
    /\ chained' = chained + 1
    /\ UNCHANGED resultOthers

\* transpose called on the Option that Result.transpose returned: it is not
\* among the members of Some and None, so the call throws a TypeError.
CallOptionTranspose ==
    /\ method = "transpose"
    /\ outcome.kind = "return"
    /\ "transpose" \notin OptionMembers
    /\ outcome' = Throw(NotAFunction("transpose"))
    /\ fnLog' = <<>>
    /\ previous' = [receiver |-> receiver, method |-> method, argument |-> argument]
    /\ receiver' = outcome.value
    /\ method' = "Option.transpose"
    /\ argument' = NoArgument
    /\ chained' = chained + 1
    /\ UNCHANGED T
    /\ UNCHANGED resultOthers

ResultNext == CallMethod \/ CallOptionTranspose

(***************************************************************************)
(* tap, chain and recover, on the Result whose Ok and Err have flatMap,    *)
(* match and the public fields value and error.                            *)
(***************************************************************************)
\* Ok.flatMap
OkFlatMap(self, fn) == Did(Return(Call(fn, self.value)), <<Inv(fn, self.value)>>)

\* Err.flatMap
ErrFlatMap(self, fn) == Did(Return(self), <<>>)

flatMap(r, fn) == IF isOk(r) THEN OkFlatMap(r, fn) ELSE ErrFlatMap(r, fn)

\* A handler that runs fn twice.
tapOkTwice(fn, r, value) == Did(Return(r), <<Inv(fn, value), Inv(fn, value)>>)

\* tap's handler ok: (value) => { fn(value); return r; }
tapOk(fn, r, value) == Did(Return(r), <<Inv(fn, value)>>)

\* tap's handler err: () => r
tapErr(r) == Did(Return(r), <<>>)

\* r.match({ok: ..., err: ...}): Ok.match calls patterns.ok(this.value), Err.match patterns.err(this.error).
tapMatch(r, fn) == IF isOk(r) THEN tapOk(fn, r, r.value) ELSE tapErr(r)

\* tap(fn)(result), up to its return: result.then(...) is a new, pending promise.
tap(fn, result) == IF IsPromise(result) THEN Did(Return(Pending), <<>>) ELSE tapMatch(result, fn)

\* A chain that always answers with a promise.
chainAlwaysAsync(fn, result) == Did(Return(Pending), <<>>)

\* chain(fn)(result), up to its return.
chain(fn, result) == IF IsPromise(result) THEN Did(Return(Pending), <<>>) ELSE flatMap(result, fn)

\* recover's fallback, with what typeof says of it.
Plain(v) == [typeof |-> "number", value |-> v]

Function(fn) == [typeof |-> "function", fn |-> fn]

\* A recover that hands the fallback function an error of its own.
recoverOtherError(result, fallback) ==
    IF isOk(result) THEN Did(Return(result), <<>>)
    ELSE IF fallback.typeof = "function"
    THEN Did(Return(Ok(Call(fallback.fn, ErrorX))), <<Inv(fallback.fn, ErrorX)>>)
    ELSE Did(Return(Ok(fallback.value)), <<>>)

recover(result, fallback) ==
    IF isOk(result) THEN Did(Return(result), <<>>)
    ELSE IF fallback.typeof = "function"
    THEN Did(Return(Ok(Call(fallback.fn, result.error))), <<Inv(fallback.fn, result.error)>>)
    ELSE Did(Return(Ok(fallback.value)), <<>>)

OpInit ==
    /\ operator = ""
    /\ opInput \in Results \cup {Pending} \cup {Fulfilled(r) : r \in Results}
    /\ opArg = NotCalled
    /\ opOutput = NotCalled
    /\ opLog = <<>>

\* fn's return value is of no use to tap: x => x and () => err("y").
CallTap ==
    /\ operator = ""
    /\ \E fn \in {Id, Const(Err(ErrorY))} :
          /\ opArg' = fn
          /\ opOutput' = tap(fn, opInput).out.value
          /\ opLog' = tap(fn, opInput).log
    /\ operator' = "tap"
    /\ UNCHANGED opInput
    /\ UNCHANGED opOthers

CallChain ==
    /\ operator = ""
    /\ \E fn \in AndThenFns("number") :
          /\ opArg' = fn
          /\ opOutput' = chain(fn, opInput).out.value
          /\ opLog' = chain(fn, opInput).log
    /\ operator' = "chain"
    /\ UNCHANGED opInput
    /\ UNCHANGED opOthers

\* recover takes a Result.
CallRecover ==
    /\ operator = ""
    /\ ~IsPromise(opInput)
    /\ \E fallback \in {Plain(v) : v \in Values} \cup {Function(ByMessage), Function(Const(1))} :
          /\ opArg' = fallback
          /\ opOutput' = recover(opInput, fallback).out.value
          /\ opLog' = recover(opInput, fallback).log
    /\ operator' = "recover"
    /\ UNCHANGED opInput
    /\ UNCHANGED opOthers

\* The AsyncResult given to tap or chain fulfils with a Result.
InputSettle ==
    /\ IsPromise(opInput)
    /\ opInput.state = "pending"
    /\ \E r \in Results : opInput' = Fulfilled(r)
    /\ UNCHANGED <<operator, opArg, opOutput, opLog>>
    /\ UNCHANGED opOthers

\* The reaction tap registered with result.then runs.
TapThen ==
    /\ operator = "tap"
    /\ IsPromise(opInput)
    /\ opInput.state = "fulfilled"
    /\ opOutput = Pending
    /\ opOutput' = Fulfilled(tapMatch(opInput.value, opArg).out.value)
    /\ opLog' = opLog \o tapMatch(opInput.value, opArg).log
    /\ UNCHANGED <<operator, opInput, opArg>>
    /\ UNCHANGED opOthers

\* The reaction chain registered with result.then runs.
ChainThen ==
    /\ operator = "chain"
    /\ IsPromise(opInput)
    /\ opInput.state = "fulfilled"
    /\ opOutput = Pending
    /\ opOutput' = Fulfilled(flatMap(opInput.value, opArg).out.value)
    /\ opLog' = opLog \o flatMap(opInput.value, opArg).log
    /\ UNCHANGED <<operator, opInput, opArg>>
    /\ UNCHANGED opOthers

OpNext ==
    \/ CallTap
    \/ CallChain
    \/ CallRecover
    \/ InputSettle
    \/ TapThen
    \/ ChainThen

\* Either a chain of method calls on a Result, or one call of tap, chain or recover.
InitResult ==
    /\ \/ ResultInit /\ OpIdle
       \/ ResultIdle /\ OpInit
    /\ EarlierIdle
    /\ ValidationIdle
    /\ ApiIdle
    /\ ExtraIdle

SpecResult == InitResult /\ [][ResultNext \/ OpNext]_vars

(***************************************************************************)
(* Claims about Result.                                                    *)
(***************************************************************************)
\* The call before the last was the method name, of a Result of numbers.
PreviousWas(name) ==
    /\ previous # NotCalled
    /\ previous.method = name
    /\ T = "number"

\* The Result that tap or chain was given has arrived, and is r.
InputIs(r) ==
    IF IsPromise(opInput) THEN opInput.state = "fulfilled" /\ opInput.value = r
    ELSE opInput = r

\* What tap or chain returned is r, or a promise that is pending or fulfilled with r.
OutputIs(r) ==
    IF IsPromise(opInput)
    THEN /\ IsPromise(opOutput)
         /\ opOutput.state = "fulfilled" => opOutput.value = r
    ELSE opOutput = r

C12_MethodsPassErr ==
    (method \in {"map", "andThen"} /\ isErr(receiver))
        => fnLog = <<>> /\ outcome = Return(Err(receiver.error))

C12_TapPassesErr ==
    \A e \in Errors : (operator = "tap" /\ InputIs(Err(e))) => opLog = <<>> /\ OutputIs(Err(e))

C12_Chained ==
    (/\ method = "andThen"
     /\ PreviousWas("andThen")
     /\ previous.receiver = Ok(1)
     /\ previous.argument = Const(Err(ErrorX))
     /\ argument = Const(Err(ErrorY)))
        => fnLog = <<>> /\ outcome = Return(Err(ErrorX))

\* C12: on an Err(e), map, andThen and tap never invoke their function
\* argument and yield Err(e); so ok(1).andThen(() => err("x")).andThen(() => err("y"))
\* is err("x") and the second function is not called.
C12_ErrPassesThrough == C12_MethodsPassErr /\ C12_TapPassesErr /\ C12_Chained

\* ok(1).andThen(() => err("x")).andThen(() => err("y")) has been evaluated.
C12_Witness ==
    /\ method = "andThen"
    /\ PreviousWas("andThen")
    /\ previous.receiver = Ok(1)
    /\ previous.argument = Const(Err(ErrorX))
    /\ argument = Const(Err(ErrorY))
    /\ outcome = Return(Err(ErrorX))

\* tap has run on an AsyncResult that resolved to an Err.
C12_WitnessTap ==
    /\ operator = "tap"
    /\ IsPromise(opOutput)
    /\ opOutput.state = "fulfilled"
    /\ isErr(opOutput.value)

\* C13: zip is left-biased: Ok(a).zip(Ok(b)) is Ok([a, b]), Ok(a).zip(Err(e))
\* is Err(e), and Err(e).zip(anything) is Err(e), the receiver's error.
C13_ZipLeftBiased ==
    method = "zip" =>
        outcome = Return(IF isErr(receiver) THEN Err(receiver.error)
                         ELSE IF isErr(argument) THEN Err(argument.error)
                         ELSE Ok(<<receiver.value, argument.value>>))

\* Both operands are Err, with different errors.
C13_Witness ==
    /\ method = "zip"
    /\ isErr(receiver)
    /\ isErr(argument)
    /\ receiver.error # argument.error
    /\ outcome = Return(Err(receiver.error))

\* C14: the monad laws, up to tag and payload: ok(x).map(id) is ok(x),
\* ok(x).andThen(ok) is ok(x), and r.andThen(f).andThen(g) is
\* r.andThen(x => f(x).andThen(g)).
C14_MonadLaws ==
    /\ (method = "map" /\ isOk(receiver) /\ argument.name = "id") => outcome = Return(receiver)
    /\ (method = "andThen" /\ isOk(receiver) /\ argument.name = "ok")
          => outcome = Return(receiver)
    /\ (method = "andThen" /\ previous # NotCalled /\ previous.method = "andThen")
          => outcome = Invoke("andThen", previous.receiver,
                              Kleisli(previous.argument, argument)).out

\* ok(1).andThen(x => x === 1 ? ok(x) : err("y")).andThen(() => ok(2)) has been evaluated.
C14_Witness ==
    /\ method = "andThen"
    /\ PreviousWas("andThen")
    /\ previous.receiver = Ok(1)
    /\ previous.argument.name = "okIfOne"
    /\ argument = Const(Ok(2))
    /\ outcome = Return(Ok(2))

\* C15: Ok(Some(v)).transpose() is Some(Ok(v)), Ok(None).transpose() is None
\* and Err(e).transpose() is Some(Err(e)).
C15_Transpose ==
    method = "transpose" =>
        outcome = Return(IF isErr(receiver) THEN Some(Err(receiver.error))
                         ELSE IF isSome(receiver.value) THEN Some(Ok(receiver.value.value))
                         ELSE None)

C15_Witness ==
    /\ method = "transpose"
    /\ isErr(receiver)
    /\ outcome = Return(Some(Err(receiver.error)))

\* C16: transpose round-trips: ok(some(v)).transpose() is some(ok(v)), and
\* some(ok(v)).transpose() is ok(some(v)).
C16_TransposeRoundTrip ==
    /\ (method = "transpose" /\ isOk(receiver) /\ isSome(receiver.value))
          => outcome = Return(some(Ok(receiver.value.value)))
    /\ (method = "Option.transpose" /\ isSome(receiver) /\ isOk(receiver.value))
          => outcome = Return(Ok(some(receiver.value.value)))

\* C17: unwrap throws if and only if the receiver is Err and returns v on
\* Ok(v); no other operation of Result throws; safeUnwrap returns the value
\* on Ok and the error on Err.
C17_OnlyUnwrapThrows ==
    method \in ResultMethods =>
        /\ outcome.kind = "throw" <=> (method = "unwrap" /\ isErr(receiver))
        /\ (method = "unwrap" /\ isOk(receiver)) => outcome = Return(receiver.value)
        /\ method = "safeUnwrap"
              => outcome = Return(IF isOk(receiver) THEN receiver.value ELSE receiver.error)

C17_Witness ==
    /\ method = "unwrap"
    /\ isErr(receiver)
    /\ outcome = Throw(receiver.error)

\* C18: tap(f)(r) invokes f once with the value when r, or the Result r
\* resolves to, is Ok and never when it is Err, and returns that Result
\* whatever f returns: at once for a Result, in a promise for an AsyncResult.
C18_Tap ==
    operator = "tap" =>
        /\ IsPromise(opOutput) <=> IsPromise(opInput)
        /\ \A r \in Results : InputIs(r) => OutputIs(r)
        /\ IF IsPromise(opOutput) /\ opOutput.state = "pending"
           THEN opLog = <<>>
           ELSE \A r \in Results : InputIs(r) =>
                   opLog = IF isOk(r) THEN <<Inv(opArg, r.value)>> ELSE <<>>

\* tap has run on an AsyncResult that resolved to an Ok, with an f that returns an Err.
C18_Witness ==
    /\ operator = "tap"
    /\ IsPromise(opOutput)
    /\ opOutput.state = "fulfilled"
    /\ isOk(opOutput.value)
    /\ opArg = Const(Err(ErrorY))
    /\ Len(opLog) = 1

\* The Result flat-mapping fn over r gives.
FlatMapped(r, fn) == IF isOk(r) THEN Call(fn, r.value) ELSE r

C20_Recover ==
    operator = "recover" =>
        /\ isOk(opOutput)
        /\ isOk(opInput) => opOutput = opInput
        /\ isErr(opInput) =>
              opOutput = Ok(IF opArg.typeof = "function" THEN Call(opArg.fn, opInput.error)
                            ELSE opArg.value)

\* recover(err("y"), e => e.message === "x" ? 1 : 2) has returned ok(2).
C20_Witness ==
    /\ operator = "recover"
    /\ opInput = Err(ErrorY)
    /\ opArg = Function(ByMessage)
    /\ opOutput = Ok(2)

(***************************************************************************)
(* sequenceObject.  The object is given by its entries in the order of     *)
(* Object.entries; entry i has the key Keys[i].                            *)
(***************************************************************************)
Keys == <<"a", "b", "c", "d">>

\* const values = {}
EmptyObject == [k \in {} |-> 0]

\* values[key] = value
SetKey(values, key, value) == (key :> value) @@ values

RECURSIVE sequenceObjectLoopLastErr(_, _, _)
sequenceObjectLoopLastErr(resolvedResults, i, values) ==
    IF i < 1 THEN Ok(values)
    ELSE IF isErr(resolvedResults[i]) THEN Err(resolvedResults[i].error)
    ELSE sequenceObjectLoopLastErr(resolvedResults, i - 1,
                                   SetKey(values, Keys[i], resolvedResults[i].value))

\* sequenceObject scanning from the end: reports the last Err instead of the first.
sequenceObjectThenLastErr(resolvedResults) ==
    sequenceObjectLoopLastErr(resolvedResults, Len(resolvedResults), EmptyObject)

RECURSIVE sequenceObjectLoop(_, _, _)
sequenceObjectLoop(resolvedResults, i, values) ==
    IF i > Len(resolvedResults) THEN Ok(values)
    ELSE IF isErr(resolvedResults[i]) THEN Err(resolvedResults[i].error)
    ELSE sequenceObjectLoop(resolvedResults, i + 1,
                            SetKey(values, Keys[i], resolvedResults[i].value))

sequenceObjectThen(resolvedResults) == sequenceObjectLoop(resolvedResults, 1, EmptyObject)

SequenceObjectInit ==
    /\ combinator = "sequenceObject"
    /\ results \in SeqsUpTo(Results \cup {Pending}, MaxLen)
    /\ settleOrder = <<>>
    /\ allPromise = Pending
    /\ output = Pending

\* The .then callback of sequenceObject, run once Promise.all has fulfilled.
SequenceObjectThenCallback ==
    /\ combinator = "sequenceObject"
    /\ allPromise.state = "fulfilled"
    /\ output.state = "pending"
    /\ output' = Fulfilled(sequenceObjectThen(allPromise.value))
    /\ UNCHANGED <<combinator, results, settleOrder, allPromise>>
    /\ UNCHANGED combOthers

SequenceObjectNext ==
    \/ \E i \in 1..MaxLen : Settle(i)
    \/ PromiseAll
    \/ SequenceObjectThenCallback

InitSequenceObject ==
    SequenceObjectInit /\ RetryIdle /\ PipeIdle /\ TimeoutIdle /\ ValidationIdle /\ LaterIdle

SpecSequenceObject == InitSequenceObject /\ [][SequenceObjectNext]_vars

\* C21: whatever the order in which the asynchronous entries settle,
\* sequenceObject resolves to Ok of an object with exactly the input keys,
\* each holding the value of its entry, when every entry is Ok, and otherwise
\* to an Err with the error of the first Err entry in key-iteration order.
C21_SequenceObject ==
    (combinator = "sequenceObject" /\ output.state = "fulfilled") =>
        LET n == Len(results)
            errIdx == {i \in 1..n : isErr(EntryResult(i))}
        IN  IF errIdx = {}
            THEN /\ isOk(output.value)
                 /\ DOMAIN output.value.value = {Keys[i] : i \in 1..n}
                 /\ \A i \in 1..n : output.value.value[Keys[i]] = EntryResult(i).value
            ELSE /\ isErr(output.value)
                 /\ output.value.error = EntryResult(MinOf(errIdx)).error

\* sequenceObject has resolved over two asynchronous entries that are both Err
\* with different errors, the later key having settled first.
C21_Witness ==
    /\ combinator = "sequenceObject"
    /\ output.state = "fulfilled"
    /\ \E i, j \in DOMAIN results :
          /\ i < j
          /\ settleOrder = <<j, i>>
          /\ isErr(EntryResult(i)) /\ isErr(EntryResult(j))
          /\ EntryResult(i).error # EntryResult(j).error

\* sequenceObject has resolved to an object of two keys, the later one having settled first.
C21_WitnessOk ==
    /\ combinator = "sequenceObject"
    /\ output.state = "fulfilled"
    /\ settleOrder = <<2, 1>>
    /\ output.value = Ok([a |-> 1, b |-> 2])

(***************************************************************************)
(* combine and collect.                                                    *)
(***************************************************************************)
RECURSIVE combineFromEnd(_, _, _)
combineFromEnd(resultTuple, i, values) ==
    IF i < 1 THEN Ok(values)
    ELSE IF isErr(resultTuple[i]) THEN resultTuple[i]
    ELSE combineFromEnd(resultTuple, i - 1, <<resultTuple[i].value>> \o values)

\* A combine that scans from the end: it returns the last Err instead of the first.
combineLastErr(resultTuple) == combineFromEnd(resultTuple, Len(resultTuple), <<>>)

RECURSIVE combineFor(_, _, _)
\* for (const result of results): return the first Err, else values.push(result.value)
combineFor(resultTuple, i, values) ==
    IF i > Len(resultTuple) THEN Ok(values)
    ELSE IF isErr(resultTuple[i]) THEN resultTuple[i]
    ELSE combineFor(resultTuple, i + 1, Append(values, resultTuple[i].value))

combine(resultTuple) == combineFor(resultTuple, 1, <<>>)

RECURSIVE combineForV2(_, _, _)
\* The same loop with values.push(result.safeUnwrap()), on the Result of src/result.
combineForV2(resultTuple, i, values) ==
    IF i > Len(resultTuple) THEN Ok(values)
    ELSE IF isErr(resultTuple[i]) THEN resultTuple[i]
    ELSE combineForV2(resultTuple, i + 1,
                      Append(values, Invoke("safeUnwrap", resultTuple[i], NoArgument).out.value))

combineV2(resultTuple) == combineForV2(resultTuple, 1, <<>>)

RECURSIVE collectFor(_, _, _)
\* for (const opt of options): return none() at the first None, else results.push(opt.unwrap())
collectFor(options, i, collected) ==
    IF i > Len(options) THEN some(collected)
    ELSE IF ~isSome(options[i]) THEN none
    ELSE collectFor(options, i + 1, Append(collected, options[i].value))

collect(options) == collectFor(options, 1, <<>>)

\* The array given: of Results or of Options, as opArg says.
FoldInit ==
    /\ operator = ""
    /\ opArg \in {"Result", "Option"}
    /\ opInput \in SeqsUpTo(IF opArg = "Result" THEN Results ELSE Inhabitants("Option"), MaxLen)
    /\ opOutput = NotCalled
    /\ opLog = <<>>

CallCombine ==
    /\ operator = ""
    /\ opArg = "Result"
    /\ operator' = "combine"
    /\ opOutput' = combine(opInput)
    /\ UNCHANGED <<opInput, opArg, opLog>>
    /\ UNCHANGED opOthers

CallCombineV2 ==
    /\ operator = ""
    /\ opArg = "Result"
    /\ operator' = "combine_v2"
    /\ opOutput' = combineV2(opInput)
    /\ UNCHANGED <<opInput, opArg, opLog>>
    /\ UNCHANGED opOthers

CallCollect ==
    /\ operator = ""
    /\ opArg = "Option"
    /\ operator' = "collect"
    /\ opOutput' = collect(opInput)
    /\ UNCHANGED <<opInput, opArg, opLog>>
    /\ UNCHANGED opOthers

FoldNext == CallCombine \/ CallCombineV2 \/ CallCollect

InitFolds == FoldInit /\ EarlierIdle /\ ValidationIdle /\ ApiIdle /\ ResultIdle /\ ExtraIdle

SpecFolds == InitFolds /\ [][FoldNext]_vars

\* The indices of the failing elements of the array given: Err, or None.
Failing == {i \in DOMAIN opInput : opInput[i].tag \in {"err", "None"}}

\* The array given, up to and with its first failing element.
UpToFirstFailing == SubSeq(opInput, 1, MinOf(Failing))

\* C22: combine returns the first Err in input order, with its payload, or
\* Ok of all the values in input order; collect returns None when there is a
\* None, or Some of all the values in input order; the elements after the
\* first failing one do not affect the result.
C22_Folds ==
    /\ operator \in {"combine", "combine_v2"} =>
          IF Failing = {}
          THEN opOutput = Ok([i \in DOMAIN opInput |-> opInput[i].value])
          ELSE /\ opOutput = Err(opInput[MinOf(Failing)].error)
               /\ opOutput = (IF operator = "combine" THEN combine(UpToFirstFailing)
                              ELSE combineV2(UpToFirstFailing))
    /\ operator = "collect" =>
          IF Failing = {}
          THEN opOutput = Some([i \in DOMAIN opInput |-> opInput[i].value])
          ELSE opOutput = None /\ opOutput = collect(UpToFirstFailing)

\* combine has been given two different Errs, with an Ok after them.
C22_Witness ==
    /\ operator = "combine"
    /\ opInput = <<Err(ErrorY), Err(ErrorX), Ok(2)>>
    /\ opOutput = Err(ErrorY)


(***************************************************************************)
(* isOk, isErr and match on the Results that ok, err and the methods of    *)
(* Result produce.                                                         *)
(***************************************************************************)
TestsOk(r) == Invoke("isOk", r, NoArgument).out.value

TestsErr(r) == Invoke("isErr", r, NoArgument).out.value

\* Exactly one of the two tests is true on r, and r holds its payload.
TagHolds(r) ==
    /\ TestsOk(r) # TestsErr(r)
    /\ TestsOk(r) => Invoke("safeUnwrap", r, NoArgument).out = Return(r.value)
    /\ TestsErr(r) => Invoke("safeUnwrap", r, NoArgument).out = Return(r.error)

\* C23: exactly one of isOk() and isErr() is true on every Result built by
\* ok or err or returned by a method; a Result built by ok(v) is Ok and holds
\* v, one built by err(e) is Err and holds e; match runs exactly one of its
\* two branches, ok on Ok and err on Err, on the payload.
C23_TagAndMatch ==
    /\ method \notin {"off", "Option.transpose"} => TagHolds(receiver)
    /\ method \in ResultReturning => TagHolds(outcome.value)
    /\ method = "isOk" => outcome = Return(~ TestsErr(receiver))
    /\ method = "isErr" => outcome = Return(~ TestsOk(receiver))
    /\ method = "match"
          => /\ Len(fnLog) = 1
             /\ TestsOk(receiver)
                   => /\ fnLog[1] = Inv(argument.ok, receiver.value)
                      /\ outcome = Return(Call(argument.ok, receiver.value))
             /\ TestsErr(receiver)
                   => /\ fnLog[1] = Inv(argument.err, receiver.error)
                      /\ outcome = Return(Call(argument.err, receiver.error))

\* match on the Err that a failing andThen returned runs the err branch only.
C23_Witness ==
    /\ method = "match"
    /\ previous # NotCalled
    /\ previous.method = "andThen"
    /\ isOk(previous.receiver)
    /\ receiver = Err(ErrorY)
    /\ argument = [ok |-> Const(1), err |-> Const(2)]
    /\ fnLog = <<Inv(Const(2), ErrorY)>>
    /\ outcome = Return(2)

(***************************************************************************)
(* toResult and fromResult.                                                *)
(***************************************************************************)
\* C24: toResult maps Valid(v) to Ok(v) and Invalid(errors) to Err(errors),
\* the whole error sequence in its order; fromResult maps Ok(v) to Valid(v)
\* and Err(e) to Invalid([e]); so fromResult(r).toResult() is Ok(v) for
\* r = Ok(v) and Err([e]) for r = Err(e).
C24_ToResult ==
    /\ apiOp = "toResult"
          => /\ subject.tag = "Valid" => converted = Ok(subject.value)
             /\ subject.tag = "Invalid"
                   => /\ converted.tag = "err"
                      /\ Len(converted.error) = Len(subject.errors)
                      /\ \A i \in 1..Len(subject.errors) :
                            converted.error[i] = subject.errors[i]
    /\ apiOp = "fromResult"
          => /\ apiArg.tag = "ok" => subject = Valid(apiArg.value)
             /\ apiArg.tag = "err" => subject = Invalid(<<apiArg.error>>)
    /\ apiOp = "toResult" /\ apiArg # NotCalled
          => /\ apiArg.tag = "ok" => converted = Ok(apiArg.value)
             /\ apiArg.tag = "err" => converted = Err(<<apiArg.error>>)

\* fromResult(Err("a")).toResult() has returned Err(["a"]).
C24_Witness ==
    /\ apiOp = "toResult"
    /\ apiArg = Err("a")
    /\ subject = Invalid(<<"a">>)
    /\ converted = Err(<<"a">>)

\* toResult on an Invalid of two errors has returned both, in their order.
C24_WitnessOrder ==
    /\ apiOp = "toResult"
    /\ subject = Invalid(<<"b", "a">>)
    /\ converted = Err(<<"b", "a">>)

(***************************************************************************)
(* Validation objects and the arrays they hold.  An object is created by a *)
(* constructor call and its fields are never assigned again; an array is   *)
(* held by reference and push writes into it.                              *)
(***************************************************************************)
MaxObjects == 3

MaxHeapErrors == 1

MaxCombined == 2

\* A field holds a number or a reference to an array.
Num(n) == [num |-> n]

Ref(a) == [ref |-> a]

\* new Valid(value), new Invalid(errors), ok(value), err(error)
NewValid(cell) == [tag |-> "Valid", field |-> cell]

NewInvalid(cell) == [tag |-> "Invalid", field |-> cell]

NewOk(cell) == [tag |-> "ok", field |-> cell]

NewErr(cell) == [tag |-> "err", field |-> cell]

\* What an object shows: its tag and its payload, an array by its elements.
Shows(obj, arrs) ==
    [tag |-> obj.tag,
     payload |-> IF "ref" \in DOMAIN obj.field THEN [elements |-> arrs[obj.field.ref]]
                 ELSE obj.field]

\* array.push(...items)
Push(arrs, a, items) == [arrs EXCEPT ![a] = @ \o items]

\* The errors array of combineValidations, were it the array of the first
\* Invalid of the argument in place of a new one.
ErrorsArrayOfFirstInvalid(arrs, vs) ==
    IF \E i \in DOMAIN vs : objects[vs[i]].tag = "Invalid"
    THEN [arrays |-> arrs,
          at |-> objects[vs[CHOOSE i \in DOMAIN vs :
                                /\ objects[vs[i]].tag = "Invalid"
                                /\ \A j \in 1..(i - 1) : objects[vs[j]].tag # "Invalid"]].field.ref]
    ELSE [arrays |-> Append(arrs, <<>>), at |-> Len(arrs) + 1]

\* const errors: E[] = []
ErrorsArray(arrs, vs) == [arrays |-> Append(arrs, <<>>), at |-> Len(arrs) + 1]

\* The loop of combineValidations over the objects vs, from the i-th on, pushing
\* onto the arrays at av (values) and ae (errors).
RECURSIVE combinePushes(_, _, _, _, _)
combinePushes(arrs, vs, i, av, ae) ==
    IF i > Len(vs) THEN arrs
    ELSE IF objects[vs[i]].tag = "Valid"
         THEN combinePushes(Push(arrs, av, <<objects[vs[i]].field.num>>), vs, i + 1, av, ae)
         ELSE combinePushes(Push(arrs, ae, arrs[objects[vs[i]].field.ref]), vs, i + 1, av, ae)

HeapInit ==
    /\ arrays = <<>>
    /\ objects = <<>>
    /\ seen = <<>>
    /\ heapOp = ""
    /\ heapArgs = <<>>
    /\ returned = 0

CanCreate == heapOp # "off" /\ Len(objects) < MaxObjects

\* The objects whose method can be called.
ValidationObjects == {i \in DOMAIN objects : objects[i].tag \in {"Valid", "Invalid"}}

\* A call on or with the objects args creates obj, on the arrays arrs, and returns it.
Created(op, args, obj, arrs) ==
    /\ arrays' = arrs
    /\ objects' = Append(objects, obj)
    /\ seen' = Append(seen, Shows(obj, arrs))
    /\ heapOp' = op
    /\ heapArgs' = args
    /\ returned' = Len(objects) + 1
    /\ UNCHANGED heapOthers

\* A call on or with the objects args returns the object at i, which exists.
Handed(op, args, i) ==
    /\ heapOp' = op
    /\ heapArgs' = args
    /\ returned' = i
    /\ UNCHANGED <<arrays, objects, seen>>
    /\ UNCHANGED heapOthers

\* valid(value)
HeapValid ==
    /\ CanCreate
    /\ \E v \in Values : Created("valid", <<>>, NewValid(Num(v)), arrays)

\* invalid(...errors): the rest parameter is a new array.
HeapInvalid ==
    /\ CanCreate
    /\ \E errs \in SeqsUpTo(ValidationErrors, MaxHeapErrors) :
          Created("invalid", <<>>, NewInvalid(Ref(Len(arrays) + 1)), Append(arrays, errs))

\* Valid.map(fn) = new Valid(fn(this.value)); Invalid.map(fn) = new Invalid(this.errors)
HeapMap ==
    /\ CanCreate
    /\ \E i \in ValidationObjects :
          \E fn \in {Id, Const(Num(1))} :
             Created("map", <<i>>,
                     IF objects[i].tag = "Valid" THEN NewValid(Call(fn, objects[i].field))
                     ELSE NewInvalid(objects[i].field),
                     arrays)

\* Valid.and(other) = other; Invalid.and(other) = new Invalid(this.errors)
HeapAnd ==
    /\ CanCreate
    /\ \E i \in ValidationObjects, o \in ValidationObjects :
          IF objects[i].tag = "Valid" THEN Handed("and", <<i, o>>, o)
          ELSE Created("and", <<i, o>>, NewInvalid(objects[i].field), arrays)

\* Valid.or(other) = this; Invalid.or(other) = other
HeapOr ==
    /\ CanCreate
    /\ \E i \in ValidationObjects, o \in ValidationObjects :
          Handed("or", <<i, o>>, IF objects[i].tag = "Valid" THEN i ELSE o)

\* Valid.toResult() = ok(this.value); Invalid.toResult() = err(this.errors)
HeapToResult ==
    /\ CanCreate
    /\ \E i \in ValidationObjects :
          Created("toResult", <<i>>,
                  IF objects[i].tag = "Valid" THEN NewOk(objects[i].field)
                  ELSE NewErr(objects[i].field),
                  arrays)

\* combineValidations(validations), on Validations of numbers.
HeapCombineValidations ==
    /\ CanCreate
    /\ \E vs \in SeqsUpTo({i \in ValidationObjects : "ref" \in DOMAIN objects[i].field
                                                      <=> objects[i].tag = "Invalid"},
                          MaxCombined) :
          LET av == Len(arrays) + 1
              withErrors == ErrorsArray(Append(arrays, <<>>), vs)
              ae == withErrors.at
              pushed == combinePushes(withErrors.arrays, vs, 1, av, ae)
          IN  IF Len(pushed[ae]) > 0
              THEN Created("combineValidations", vs, NewInvalid(Ref(Len(pushed) + 1)),
                           Append(pushed, pushed[ae]))
              ELSE Created("combineValidations", vs, NewValid(Ref(av)), pushed)

HeapNext ==
    \/ HeapValid
    \/ HeapInvalid
    \/ HeapMap
    \/ HeapAnd
    \/ HeapOr
    \/ HeapToResult
    \/ HeapCombineValidations

InitHeap == HeapInit /\ HeapOthersIdle

SpecHeap == InitHeap /\ [][HeapNext]_vars

MaxInterval == 2

MaxRequests == 2

MaxTime == 4

MaxLimiterCalls == 5

\* this.timestamps.filter(t => t > windowStart)
Recent(ts, windowStart) == SelectSeq(ts, LAMBDA t : t > windowStart)

\* tryAcquire, were it to test the length with > in place of >=.
tryAcquireOneMore(ts, at, span, max) ==
    LET kept == Recent(ts, at - span)
    IN  IF Len(kept) > max THEN [timestamps |-> kept, returns |-> FALSE]
        ELSE [timestamps |-> Append(kept, at), returns |-> TRUE]

\* tryAcquire() at the time at, on the timestamps ts.
tryAcquire(ts, at, span, max) ==
    LET kept == Recent(ts, at - span)
    IN  IF Len(kept) >= max THEN [timestamps |-> kept, returns |-> FALSE]
        ELSE [timestamps |-> Append(kept, at), returns |-> TRUE]

\* Math.max(a, b)
MathMax(a, b) == IF a >= b THEN a ELSE b

\* remaining() at the time at, on the timestamps ts.
remaining(ts, at, span, max) ==
    LET kept == Recent(ts, at - span)
    IN  [timestamps |-> kept, returns |-> MathMax(0, max - Len(kept))]

\* new RateLimiter(options)
LimiterInit ==
    /\ interval \in 0..MaxInterval
    /\ maxRequests \in 0..MaxRequests
    /\ timestamps = <<>>
    /\ clock = 0
    /\ limiterOp = ""
    /\ limiterResult = NotCalled
    /\ limiterBefore = [timestamps |-> <<>>, clock |-> 0]
    /\ granted = <<>>
    /\ resetCalled = FALSE

CanCallLimiter == limiterOp # "off" /\ Len(granted) < MaxLimiterCalls

CallTryAcquire ==
    /\ CanCallLimiter
    /\ timestamps' = tryAcquire(timestamps, clock, interval, maxRequests).timestamps
    /\ limiterResult' = tryAcquire(timestamps, clock, interval, maxRequests).returns
    /\ limiterOp' = "tryAcquire"
    /\ limiterBefore' = [timestamps |-> timestamps, clock |-> clock]
    /\ granted' = IF limiterResult' THEN Append(granted, clock) ELSE granted
    /\ UNCHANGED <<interval, maxRequests, clock, resetCalled>>
    /\ UNCHANGED limiterOthers

CallRemaining ==
    /\ CanCallLimiter
    /\ timestamps' = remaining(timestamps, clock, interval, maxRequests).timestamps
    /\ limiterResult' = remaining(timestamps, clock, interval, maxRequests).returns
    /\ limiterOp' = "remaining"
    /\ limiterBefore' = [timestamps |-> timestamps, clock |-> clock]
    /\ UNCHANGED <<interval, maxRequests, clock, granted, resetCalled>>
    /\ UNCHANGED limiterOthers

CallReset ==
    /\ CanCallLimiter
    /\ timestamps' = <<>>
    /\ limiterResult' = NotCalled
    /\ limiterOp' = "reset"
    /\ limiterBefore' = [timestamps |-> timestamps, clock |-> clock]
    /\ resetCalled' = TRUE
    /\ UNCHANGED <<interval, maxRequests, clock, granted>>
    /\ UNCHANGED limiterOthers

\* Time passes: a later call of Date.now() returns a later time.
ClockAdvance ==
    /\ limiterOp # "off"
    /\ clock < MaxTime
    /\ clock' = clock + 1
    /\ UNCHANGED <<interval, maxRequests, timestamps, limiterOp, limiterResult, limiterBefore,
                   granted, resetCalled>>
    /\ UNCHANGED limiterOthers

LimiterNext == CallTryAcquire \/ CallRemaining \/ CallReset \/ ClockAdvance

InitLimiter == LimiterInit /\ LimiterOthersIdle

SpecLimiter == InitLimiter /\ [][LimiterNext]_vars

\* The number of granted calls at the times after s and up to s + interval.
GrantedInWindow(s) == Cardinality({k \in DOMAIN granted : s < granted[k] /\ granted[k] <= s + interval})

\* C26: over tryAcquire and remaining calls at non-decreasing clock times,
\* without reset, the number of tryAcquire calls that returned true within
\* any time window of length interval (the times after s and up to
\* s + interval, for any s) never exceeds maxRequests, and a tryAcquire that
\* returns false records nothing.
C26_AtMostMaxRequests ==
    ~ resetCalled
       => /\ \A s \in (0 - MaxInterval - 1)..(MaxTime + 1) : GrantedInWindow(s) <= maxRequests
          /\ limiterOp = "tryAcquire" /\ limiterResult = FALSE
                => timestamps = Recent(limiterBefore.timestamps, limiterBefore.clock - interval)

\* The third tryAcquire within one interval has returned false, after two were
\* granted, and left the two timestamps as they were.
C26_Witness ==
    /\ ~ resetCalled
    /\ interval = 2
    /\ maxRequests = 2
    /\ limiterOp = "tryAcquire"
    /\ limiterResult = FALSE
    /\ granted = <<0, 1>>
    /\ clock = 1
    /\ timestamps = <<0, 1>>

\* Two calls exactly one interval apart are both granted.
C26_WitnessApart ==
    /\ ~ resetCalled
    /\ interval = 2
    /\ maxRequests = 1
    /\ limiterOp = "tryAcquire"
    /\ limiterResult = TRUE
    /\ granted = <<0, 2>>

(***************************************************************************)
(* TypedEventEmitter.  A Map is a function on the keys it has; a Set is    *)
(* the sequence of its members in insertion order.                         *)
(***************************************************************************)
MaxEmitterOps == 4

EventNames == {"x", "y"}

\* The callbacks a caller registers: "f" returns, "t" throws.
UserCallbacks == {"f", "t"}

\* The resolve function of the promise waitFor makes.
Resolve == "resolve"

Callbacks == UserCallbacks \cup {Resolve}

\* map.has(key), map.delete(key), map.set(key, value)
MapHas(map, key) == key \in DOMAIN map

MapDelete(map, key) == [k \in DOMAIN map \ {key} |-> map[k]]

MapSet(map, key, value) == [k \in DOMAIN map \cup {key} |-> IF k = key THEN value ELSE map[k]]

\* set.add(member), set.delete(member)
SetAdd(set, member) ==
    IF \E i \in DOMAIN set : set[i] = member THEN set ELSE Append(set, member)

SetDelete(set, member) == SelectSeq(set, LAMBDA m : m # member)

\* map.get(event)?.delete(callback)
DeleteFrom(map, event, callback) ==
    IF MapHas(map, event) THEN MapSet(map, event, SetDelete(map[event], callback)) ELSE map

\* The index of the first callback of the Set that throws, 0 if none does.
FirstThrow(set) ==
    IF \E i \in DOMAIN set : set[i] = "t"
    THEN CHOOSE i \in DOMAIN set : set[i] = "t" /\ \A j \in 1..(i - 1) : set[j] # "t"
    ELSE 0

\* set.forEach(callback => callback(arg)): the callbacks invoked, up to the first that throws.
ForEach(set) == IF FirstThrow(set) = 0 THEN set ELSE SubSeq(set, 1, FirstThrow(set))

\* listenerCount(event)
listenerCount(event) ==
    (IF MapHas(listeners, event) THEN Len(listeners[event]) ELSE 0)
        + (IF MapHas(onceListeners, event) THEN Len(onceListeners[event]) ELSE 0)

EmitterInit ==
    /\ listeners = <<>>
    /\ onceListeners = <<>>
    /\ emitterOp = ""
    /\ emitterArgs = NotCalled
    /\ emitterResult = NotCalled
    /\ callbacksRun = <<>>
    /\ onceCalls = [p \in EventNames \X Callbacks |-> 0]
    /\ unsubscribers = {}
    /\ waited = NotCalled
    /\ emitterOps = 0

CanCallEmitter == emitterOp # "off" /\ emitterOps < MaxEmitterOps

\* What every call but emit leaves alone, and the record of the call.
EmitterCalled(op, event, callback) ==
    /\ emitterOp' = op
    /\ emitterArgs' = [event |-> event, callback |-> callback]
    /\ emitterResult' = Return(NotCalled)
    /\ callbacksRun' = <<>>
    /\ emitterOps' = emitterOps + 1
    /\ UNCHANGED emitterOthers

\* on(event, callback)
CallOn ==
    /\ CanCallEmitter
    /\ \E event \in EventNames, callback \in UserCallbacks :
          /\ listeners' = MapSet(listeners, event,
                                 SetAdd(IF MapHas(listeners, event) THEN listeners[event]
                                        ELSE <<>>, callback))
          /\ unsubscribers' = unsubscribers \cup {<<event, callback>>}
          /\ EmitterCalled("on", event, callback)
    /\ UNCHANGED <<onceListeners, onceCalls, waited>>

\* once(event, callback)
CallOnce ==
    /\ CanCallEmitter
    /\ \E event \in EventNames, callback \in UserCallbacks :
          /\ onceListeners' = MapSet(onceListeners, event,
                                     SetAdd(IF MapHas(onceListeners, event)
                                            THEN onceListeners[event] ELSE <<>>, callback))
          /\ onceCalls' = [onceCalls EXCEPT ![<<event, callback>>] = 0]
          /\ unsubscribers' = unsubscribers \cup {<<event, callback>>}
          /\ EmitterCalled("once", event, callback)
    /\ UNCHANGED <<listeners, waited>>

\* waitFor(event) = new Promise(resolve => this.once(event, resolve))
CallWaitFor ==
    /\ CanCallEmitter
    /\ waited = NotCalled
    /\ \E event \in EventNames :
          /\ onceListeners' = MapSet(onceListeners, event,
                                     SetAdd(IF MapHas(onceListeners, event)
                                            THEN onceListeners[event] ELSE <<>>, Resolve))
          /\ onceCalls' = [onceCalls EXCEPT ![<<event, Resolve>>] = 0]
          /\ EmitterCalled("waitFor", event, Resolve)
    /\ waited' = Pending
    /\ UNCHANGED <<listeners, unsubscribers>>

\* off(event, callback)
CallOff ==
    /\ CanCallEmitter
    /\ \E event \in EventNames, callback \in UserCallbacks :
          /\ listeners' = DeleteFrom(listeners, event, callback)
          /\ onceListeners' = DeleteFrom(onceListeners, event, callback)
          /\ EmitterCalled("off", event, callback)
    /\ UNCHANGED <<onceCalls, unsubscribers, waited>>

\* The function on and once returned: () => this.off(event, callback)
CallUnsubscribe ==
    /\ CanCallEmitter
    /\ \E u \in unsubscribers :
          /\ listeners' = DeleteFrom(listeners, u[1], u[2])
          /\ onceListeners' = DeleteFrom(onceListeners, u[1], u[2])
          /\ EmitterCalled("unsubscribe", u[1], u[2])
    /\ UNCHANGED <<onceCalls, unsubscribers, waited>>

\* removeAllListeners(event)
CallRemoveAllListenersOf ==
    /\ CanCallEmitter
    /\ \E event \in EventNames :
          /\ listeners' = MapDelete(listeners, event)
          /\ onceListeners' = MapDelete(onceListeners, event)
          /\ EmitterCalled("removeAllListeners", event, "")
    /\ UNCHANGED <<onceCalls, unsubscribers, waited>>

\* removeAllListeners()
CallRemoveAllListeners ==
    /\ CanCallEmitter
    /\ listeners' = <<>>
    /\ onceListeners' = <<>>
    /\ EmitterCalled("removeAllListeners", "", "")
    /\ UNCHANGED <<onceCalls, unsubscribers, waited>>

\* emit(event, arg).  A callback that throws ends the call there.
CallEmit ==
    /\ CanCallEmitter
    /\ \E event \in EventNames, arg \in Values :
          LET hasOn == MapHas(listeners, event)
              onSet == IF hasOn THEN listeners[event] ELSE <<>>
              onThrew == FirstThrow(onSet) > 0
              hasOnce == MapHas(onceListeners, event)
              onceSet == IF hasOnce /\ ~ onThrew THEN onceListeners[event] ELSE <<>>
              onceThrew == FirstThrow(onceSet) > 0
              onceRun == ForEach(onceSet)
          IN  /\ callbacksRun' = ForEach(onSet) \o onceRun
              /\ onceCalls' = [p \in DOMAIN onceCalls |->
                                  IF p[1] = event /\ \E i \in DOMAIN onceRun : onceRun[i] = p[2]
                                  THEN onceCalls[p] + 1 ELSE onceCalls[p]]
              /\ waited' = IF waited = Pending /\ \E i \in DOMAIN onceRun : onceRun[i] = Resolve
                           THEN Fulfilled(arg) ELSE waited
              /\ onceListeners' = IF hasOnce /\ ~ onThrew /\ ~ onceThrew
                                  THEN MapDelete(onceListeners, event) ELSE onceListeners
              /\ emitterResult' = IF onThrew \/ onceThrew THEN Throw("t")
                                  ELSE Return(hasOn \/ hasOnce)
              /\ emitterArgs' = [event |-> event, arg |-> arg, had |-> listenerCount(event) > 0]
    /\ emitterOp' = "emit"
    /\ emitterOps' = emitterOps + 1
    /\ UNCHANGED <<listeners, unsubscribers>>
    /\ UNCHANGED emitterOthers

EmitterNext ==
    \/ CallOn
    \/ CallOnce
    \/ CallWaitFor
    \/ CallOff
    \/ CallUnsubscribe
    \/ CallRemoveAllListenersOf
    \/ CallRemoveAllListeners
    \/ CallEmit

InitEmitter == EmitterInit /\ EmitterOthersIdle

SpecEmitter == InitEmitter /\ [][EmitterNext]_vars

\* C27: emit(event, arg) returns true exactly when the event had at least one
\* listener, registered with on or once and not since removed, at the time
\* of the call; it returns false after the only listener of the event has
\* been unsubscribed.
C27_EmitTellsListeners ==
    emitterOp = "emit" /\ emitterResult.kind = "return"
       => emitterResult.value = emitterArgs.had

\* emit has returned true and invoked no callback: the event had no listener.
C27_TrueWithoutListener ==
    /\ emitterOp = "emit"
    /\ emitterResult = Return(TRUE)
    /\ ~ emitterArgs.had
    /\ callbacksRun = <<>>

\* C28: a callback registered with once(event, cb) is invoked by at most one
\* emit of that event: the first emit after the registration calls it and
\* later emits do not.
C28_OnceAtMostOneEmit == \A p \in DOMAIN onceCalls : onceCalls[p] <= 1

\* The first emit after once(event, cb) has invoked cb and removed it.
C28_InvokedOnce ==
    /\ emitterOp = "emit"
    /\ emitterResult = Return(TRUE)
    /\ callbacksRun = <<"f">>
    /\ onceCalls[<<emitterArgs.event, "f">>] = 1
    /\ ~ MapHas(onceListeners, emitterArgs.event)

(***************************************************************************)
(* Cache.                                                                  *)
(***************************************************************************)
MaxCacheSize == 2

MaxTtl == 0

MaxCacheTime == 1

MaxCacheOps == 3

CacheKeys == {"a", "b", "c"}

\* Infinity, the default of maxSize and ttl: above every age and size here.
Infinity == MaxCacheTime + MaxCacheOps + 1

Undefined == [tag |-> "undefined"]

Defined(v) == [value |-> v]

\* this.cache.has(key), as the index of the entry of key, 0 if there is none.
IndexOf(entries, key) ==
    IF \E i \in DOMAIN entries : entries[i].key = key
    THEN CHOOSE i \in DOMAIN entries : entries[i].key = key
    ELSE 0

\* this.cache.delete(key)
CacheMapDelete(entries, key) == SelectSeq(entries, LAMBDA e : e.key # key)

\* this.cache.set(key, entry): an entry of the key is replaced where it is.
CacheMapSet(entries, key, entry) ==
    IF IndexOf(entries, key) = 0 THEN Append(entries, entry)
    ELSE [entries EXCEPT ![IndexOf(entries, key)] = entry]

\* set, were it to evict the newest key of a full cache.
cacheSetEvictsNewest(entries, key, value, at, max) ==
    LET room == IF Len(entries) >= max /\ entries # <<>>
                THEN SubSeq(entries, 1, Len(entries) - 1) ELSE entries
    IN  CacheMapSet(room, key, [key |-> key, value |-> value, timestamp |-> at])

\* set(key, value) at the time at.
cacheSet(entries, key, value, at, max) ==
    LET room == IF Len(entries) >= max /\ entries # <<>>
                THEN CacheMapDelete(entries, entries[1].key) ELSE entries
    IN  CacheMapSet(room, key, [key |-> key, value |-> value, timestamp |-> at])

\* get(key) at the time at.
cacheGet(entries, key, at, life) ==
    IF IndexOf(entries, key) = 0 THEN [cache |-> entries, returns |-> Undefined]
    ELSE IF at - entries[IndexOf(entries, key)].timestamp > life
         THEN [cache |-> CacheMapDelete(entries, key), returns |-> Undefined]
         ELSE [cache |-> entries, returns |-> Defined(entries[IndexOf(entries, key)].value)]

\* new Cache(options), with a finite maxSize of 1 or more.
CacheInit ==
    /\ cache = <<>>
    /\ maxSize \in 1..MaxCacheSize
    /\ ttl \in 0..MaxTtl \cup {Infinity}
    /\ cacheClock = 0
    /\ cacheOp = ""
    /\ cacheArgs = NotCalled
    /\ cacheResult = NotCalled
    /\ cacheBefore = <<>>
    /\ live = [k \in CacheKeys |-> Undefined]
    /\ cacheOps = 0

CanCallCache == cacheOp # "off" /\ cacheOps < MaxCacheOps

\* The keys whose most recent set stands.
LiveKeys == {k \in DOMAIN live : live[k] # Undefined}

\* The oldest-inserted of the keys that stand.
OldestInserted == CHOOSE k \in LiveKeys : \A j \in LiveKeys : live[k].rank <= live[j].rank

\* What set(key, value) makes of the keys that stand: on a full cache the
\* oldest-inserted goes; the key takes the value and the time, and keeps the
\* rank of its insertion if it stands.
LiveAfterSet(key, value) ==
    LET room == IF Cardinality(LiveKeys) >= maxSize
                THEN [live EXCEPT ![OldestInserted] = Undefined] ELSE live
    IN  [room EXCEPT ![key] = [value |-> value, at |-> cacheClock,
                               rank |-> IF room[key] = Undefined THEN cacheOps
                                        ELSE room[key].rank]]

\* What get(key) and has(key) make of them: a key past its ttl goes.
LiveAfterGet(key) ==
    IF live[key] # Undefined /\ cacheClock - live[key].at > ttl
    THEN [live EXCEPT ![key] = Undefined] ELSE live

\* The record of a call.
CacheCalled(op, args) ==
    /\ cacheOp' = op
    /\ cacheArgs' = args
    /\ cacheBefore' = cache
    /\ cacheOps' = cacheOps + 1
    /\ UNCHANGED <<maxSize, ttl, cacheClock>>
    /\ UNCHANGED cacheOthers

CallCacheSet ==
    /\ CanCallCache
    /\ \E key \in CacheKeys, value \in Values :
          /\ cache' = cacheSet(cache, key, value, cacheClock, maxSize)
          /\ live' = LiveAfterSet(key, value)
          /\ CacheCalled("set", [key |-> key, value |-> value])
    /\ cacheResult' = Undefined

CallCacheGet ==
    /\ CanCallCache
    /\ \E key \in CacheKeys :
          /\ cache' = cacheGet(cache, key, cacheClock, ttl).cache
          /\ cacheResult' = cacheGet(cache, key, cacheClock, ttl).returns
          /\ live' = LiveAfterGet(key)
          /\ CacheCalled("get", [key |-> key])

\* has(key) = this.get(key) !== undefined
CallCacheHas ==
    /\ CanCallCache
    /\ \E key \in CacheKeys :
          /\ cache' = cacheGet(cache, key, cacheClock, ttl).cache
          /\ cacheResult' = Defined(cacheGet(cache, key, cacheClock, ttl).returns # Undefined)
          /\ live' = LiveAfterGet(key)
          /\ CacheCalled("has", [key |-> key])

CallCacheDelete ==
    /\ CanCallCache
    /\ \E key \in CacheKeys :
          /\ cache' = CacheMapDelete(cache, key)
          /\ live' = [live EXCEPT ![key] = Undefined]
          /\ CacheCalled("delete", [key |-> key])
    /\ cacheResult' = Undefined

CallCacheClear ==
    /\ CanCallCache
    /\ cache' = <<>>
    /\ live' = [k \in CacheKeys |-> Undefined]
    /\ CacheCalled("clear", NoArgument)
    /\ cacheResult' = Undefined

CallCacheSize ==
    /\ CanCallCache
    /\ cacheResult' = Defined(Len(cache))
    /\ CacheCalled("size", NoArgument)
    /\ UNCHANGED <<cache, live>>

\* Time passes: a later call of Date.now() returns a later time.
CacheClockAdvance ==
    /\ cacheOp # "off"
    /\ cacheClock < MaxCacheTime
    /\ cacheClock' = cacheClock + 1
    /\ UNCHANGED <<cache, maxSize, ttl, cacheOp, cacheArgs, cacheResult, cacheBefore, live,
                   cacheOps>>
    /\ UNCHANGED cacheOthers

CacheNext ==
    \/ CallCacheSet
    \/ CallCacheGet
    \/ CallCacheHas
    \/ CallCacheDelete
    \/ CallCacheClear
    \/ CallCacheSize
    \/ CacheClockAdvance

InitCache == CacheInit /\ CacheOthersIdle

SpecCache == InitCache /\ [][CacheNext]_vars

\* C29: with a finite maxSize of 1 or more, size() never exceeds maxSize
\* after any sequence of set, get, has, delete and clear; set on a full cache
\* first evicts the oldest-inserted key and then stores the new entry; get(k)
\* returns the value of the most recent set(k, v) as long as k has not been
\* evicted, deleted, cleared or expired by ttl.
C29_Cache ==
    cacheOp # "off"
       => /\ Len(cache) <= maxSize
          /\ cacheOp = "size" => cacheResult = Defined(Len(cache)) /\ cacheResult.value <= maxSize
          /\ cacheOp = "set" /\ Len(cacheBefore) >= maxSize
                => /\ cacheBefore[1].key # cacheArgs.key => IndexOf(cache, cacheBefore[1].key) = 0
                   /\ \A i \in 2..Len(cacheBefore) : IndexOf(cache, cacheBefore[i].key) # 0
          /\ cacheOp = "set"
                => /\ IndexOf(cache, cacheArgs.key) # 0
                   /\ cache[IndexOf(cache, cacheArgs.key)].value = cacheArgs.value
          /\ cacheOp = "get"
                => cacheResult = (IF cacheArgs.key \in LiveKeys
                                  THEN Defined(live[cacheArgs.key].value) ELSE Undefined)
          /\ \A k \in LiveKeys :
                cacheGet(cache, k, live[k].at, ttl).returns = Defined(live[k].value)

\* get has returned the value set last, after that set evicted the one key
\* of a full cache.
C29_Witness ==
    /\ cacheOp = "get"
    /\ maxSize = 1
    /\ cacheArgs.key = "b"
    /\ cacheResult = Defined(2)
    /\ live["a"] = Undefined
    /\ cacheBefore = cache
    /\ Len(cache) = 1
    /\ cacheOps = 3

\* set on a full cache of two keys has evicted the oldest-inserted of them.
C29_WitnessEvicted ==
    /\ cacheOp = "set"
    /\ Len(cacheBefore) = 2
    /\ maxSize = 2
    /\ cacheBefore[1].key # cacheArgs.key
    /\ IndexOf(cacheBefore, cacheArgs.key) = 0
    /\ Len(cache) = 2

(***************************************************************************)
(* Lazy.                                                                   *)
(***************************************************************************)
MaxGets == 4

\* What a call of func can do: return a value or throw.
FuncOutcomes == {Return(v) : v \in Values} \cup {Throw("e")}

\* get, were it to leave computed as it is.
lazyGetRecomputes(isComputed, value, funcDoes) ==
    IF ~ isComputed
    THEN IF funcDoes.kind = "throw"
         THEN [computed |-> isComputed, value |-> value, called |-> TRUE, did |-> funcDoes]
         ELSE [computed |-> isComputed, value |-> funcDoes.value, called |-> TRUE,
               did |-> Return(funcDoes.value)]
    ELSE [computed |-> isComputed, value |-> value, called |-> FALSE, did |-> Return(value)]

\* get(), where a call of func would do funcDoes.
lazyGet(isComputed, value, funcDoes) ==
    IF ~ isComputed
    THEN IF funcDoes.kind = "throw"
         THEN [computed |-> isComputed, value |-> value, called |-> TRUE, did |-> funcDoes]
         ELSE [computed |-> TRUE, value |-> funcDoes.value, called |-> TRUE,
               did |-> Return(funcDoes.value)]
    ELSE [computed |-> isComputed, value |-> value, called |-> FALSE, did |-> Return(value)]

\* new Lazy(func)
LazyInit ==
    /\ computed = FALSE
    /\ lazyValue = NotCalled
    /\ funcReturns \in [1..MaxGets -> FuncOutcomes]
    /\ funcCalls = 0
    /\ gets = <<>>

CallLazyGet ==
    /\ Len(gets) < Len(funcReturns)
    /\ LET got == lazyGet(computed, lazyValue, funcReturns[funcCalls + 1])
       IN  /\ computed' = got.computed
           /\ lazyValue' = got.value
           /\ funcCalls' = IF got.called THEN funcCalls + 1 ELSE funcCalls
           /\ gets' = Append(gets, got.did)
    /\ UNCHANGED funcReturns
    /\ UNCHANGED lazyOthers

LazyNext == CallLazyGet

InitLazy == LazyInit /\ LazyOthersIdle

SpecLazy == InitLazy /\ [][LazyNext]_vars

\* Every call of func made so far has returned.
ReturnsNormally == \A k \in 1..funcCalls : funcReturns[k].kind = "return"

\* C30: over any number of get() calls on one Lazy whose function returns
\* normally, the function is invoked exactly once, on the first get, and
\* every get returns the value of that invocation; the function is not
\* invoked before the first get.
C30_LazyMemoizes ==
    ReturnsNormally
       => /\ funcCalls = (IF gets = <<>> THEN 0 ELSE 1)
          /\ \A i \in DOMAIN gets : gets[i] = Return(funcReturns[1].value)

\* Three gets on a Lazy whose function would return another value the second
\* time have all returned the first.
C30_Witness ==
    /\ Len(gets) = 3
    /\ funcReturns[1] = Return(1)
    /\ funcReturns[2] = Return(2)
    /\ funcCalls = 1
    /\ gets = <<Return(1), Return(1), Return(1)>>
=============================================================================
